---- MODULE Spec2Model ----
(***************************************************************************)
(* Session orchestration engine of the MPT therapist chatbot: the stage    *)
(* registry, the fact extractors, the category classifier, the transition  *)
(* evaluator and the POST /api/chat and POST /api/sessions/new handlers    *)
(* that drive them (server/session-state.ts and server/routes.ts, as       *)
(* listed in src/replit.md).                                               *)
(*                                                                         *)
(* An utterance is a sequence of word tokens.  Russian words are written   *)
(* in Latin transliteration; String.includes and the regular expressions   *)
(* of the source are modelled at word granularity (a keyword occurs in an  *)
(* utterance when its words occur there as consecutive words).             *)
(***************************************************************************)
EXTENDS Integers, Sequences, FiniteSets, TLC

\* A nullable value (T | null): None is null, Some(v) is the value v.
None == << >>
Some(v) == <<v>>

Min(S) == CHOOSE x \in S : \A y \in S : x <= y

----------------------------------------------------------------------------
(* Stage registry                                                          *)

MPT_STAGE_ORDER ==
  << "start_session", "collect_context", "clarify_request", "explore_strategy",
     "find_need", "bodywork", "metaphor", "meta_position", "integration",
     "plan_actions", "finish" >>

MPTStage == { MPT_STAGE_ORDER[i] : i \in 1..Len(MPT_STAGE_ORDER) }

\* MPT_STAGE_CONFIG with the minimum of bodywork raised above the ceiling
\* that shouldTransitionToNextStage hard-codes for it.
MPT_STAGE_CONFIG_BodyworkFive ==
  [ start_session    |-> [minResponses |-> 1],
    collect_context  |-> [minResponses |-> 2],
    clarify_request  |-> [minResponses |-> 3],
    explore_strategy |-> [minResponses |-> 3],
    find_need        |-> [minResponses |-> 3],
    bodywork         |-> [minResponses |-> 5],
    metaphor         |-> [minResponses |-> 3],
    meta_position    |-> [minResponses |-> 3],
    integration      |-> [minResponses |-> 3],
    plan_actions     |-> [minResponses |-> 2],
    finish           |-> [minResponses |-> 1] ]

\* Only minResponses of a StageConfig takes part in the control flow.
MPT_STAGE_CONFIG ==
  [ start_session    |-> [minResponses |-> 1],
    collect_context  |-> [minResponses |-> 2],
    clarify_request  |-> [minResponses |-> 3],
    explore_strategy |-> [minResponses |-> 3],
    find_need        |-> [minResponses |-> 3],
    bodywork         |-> [minResponses |-> 4],
    metaphor         |-> [minResponses |-> 3],
    meta_position    |-> [minResponses |-> 3],
    integration      |-> [minResponses |-> 3],
    plan_actions     |-> [minResponses |-> 2],
    finish           |-> [minResponses |-> 1] ]

\* Array.prototype.indexOf: 0-based position, -1 when absent.
IndexOf(seq, x) ==
  IF \E i \in 1..Len(seq) : seq[i] = x
    THEN Min({ i \in 1..Len(seq) : seq[i] = x }) - 1
    ELSE -1

----------------------------------------------------------------------------
(* Category classifier                                                     *)

\* Key order of REQUEST_TYPE_KEYWORDS, which Object.entries iterates.
REQUEST_TYPE_ORDER ==
  << "fear_anxiety", "procrastination", "relationships", "self_worth", "burnout",
     "lost_desires", "role_conflict", "resistance", "trauma", "identity",
     "psychosomatic", "general" >>

RequestType == { REQUEST_TYPE_ORDER[i] : i \in 1..Len(REQUEST_TYPE_ORDER) }

REQUEST_TYPE_KEYWORDS ==
  [
    \* fear_anxiety: страх, боюсь, тревога, паника, волнуюсь, страшно, фобия, беспокойство, навязчивые мысли, тревожусь, переживаю, ужас, опасаюсь, боязнь
    fear_anxiety |-> <<
      <<"strah">>, <<"boyus">>, <<"trevoga">>, <<"panika">>, <<"volnuyus">>, <<"strashno">>,
      <<"fobiya">>, <<"bespokojstvo">>, <<"navyazchivye", "mysli">>, <<"trevozhus">>,
      <<"perezhivayu">>, <<"uzhas">>, <<"opasayus">>, <<"boyazn">>
    >>,
    \* procrastination: прокрастинация, откладываю, не могу начать, тяну время, не могу заставить себя, всё время откладываю, никак не начну, затягиваю, медлю
    procrastination |-> <<
      <<"prokrastinaciya">>, <<"otkladyvayu">>, <<"ne", "mogu", "nachat">>,
      <<"tyanu", "vremya">>, <<"ne", "mogu", "zastavit", "sebya">>,
      <<"vsyo", "vremya", "otkladyvayu">>, <<"nikak", "ne", "nachnu">>, <<"zatyagivayu">>,
      <<"medlyu">>
    >>,
    \* relationships: отношения, партнер, муж, жена, девушка, парень, брак, любовь, расставание, развод, ссоры, конфликты в паре, не понимаем друг друга, разрыв, измена, ревность
    relationships |-> <<
      <<"otnosheniya">>, <<"partner">>, <<"muzh">>, <<"zhena">>, <<"devushka">>, <<"paren">>,
      <<"brak">>, <<"lyubov">>, <<"rasstavanie">>, <<"razvod">>, <<"ssory">>,
      <<"konflikty", "v", "pare">>, <<"ne", "ponimaem", "drug", "druga">>, <<"razryv">>,
      <<"izmena">>, <<"revnost">>
    >>,
    \* self_worth: самооценка, не уверен в себе, неуверенность, не достоин, не заслуживаю, чувствую себя никчемным, самоценность, не ценю себя, низкая самооценка, комплексы
    self_worth |-> <<
      <<"samoocenka">>, <<"ne", "uveren", "v", "sebe">>, <<"neuverennost">>,
      <<"ne", "dostoin">>, <<"ne", "zasluzhivayu">>, <<"chuvstvuyu", "sebya", "nikchemnym">>,
      <<"samocennost">>, <<"ne", "cenyu", "sebya">>, <<"nizkaya", "samoocenka">>,
      <<"kompleksy">>
    >>,
    \* burnout: выгорание, устал, нет сил, апатия, энергии нет, истощение, опустошен, выжат, burnout, перегорел, нет мотивации, всё надоело
    burnout |-> <<
      <<"vygoranie">>, <<"ustal">>, <<"net", "sil">>, <<"apatiya">>, <<"energii", "net">>,
      <<"istoschenie">>, <<"opustoshen">>, <<"vyzhat">>, <<"burnout">>, <<"peregorel">>,
      <<"net", "motivacii">>, <<"vsyo", "nadoelo">>
    >>,
    \* lost_desires: не знаю чего хочу, потерял желания, ничего не хочу, нет целей, нет смысла, не понимаю что хочу, потерял интерес, всё равно
    lost_desires |-> <<
      <<"ne", "znayu", "chego", "hochu">>, <<"poteryal", "zhelaniya">>,
      <<"nichego", "ne", "hochu">>, <<"net", "celej">>, <<"net", "smysla">>,
      <<"ne", "ponimayu", "chto", "hochu">>, <<"poteryal", "interes">>, <<"vsyo", "ravno">>
    >>,
    \* role_conflict: конфликт ролей, не могу выбрать, разрываюсь, противоречие, две части, хочу и не хочу, должен но не хочу, внутренний конфликт
    role_conflict |-> <<
      <<"konflikt", "rolej">>, <<"ne", "mogu", "vybrat">>, <<"razryvayus">>,
      <<"protivorechie">>, <<"dve", "chasti">>, <<"hochu", "i", "ne", "hochu">>,
      <<"dolzhen", "no", "ne", "hochu">>, <<"vnutrennij", "konflikt">>
    >>,
    \* resistance: сопротивление, не хочется, заставляю себя, нет мотивации, саботирую, мешаю себе, не могу себя заставить
    resistance |-> <<
      <<"soprotivlenie">>, <<"ne", "hochetsya">>, <<"zastavlyayu", "sebya">>,
      <<"net", "motivacii">>, <<"sabotiruyu">>, <<"meshayu", "sebe">>,
      <<"ne", "mogu", "sebya", "zastavit">>
    >>,
    \* trauma: травма, детство, родители, обида, прошлое, воспоминания, больно, не отпускает, токсичные, насилие, жестокость
    trauma |-> <<
      <<"travma">>, <<"detstvo">>, <<"roditeli">>, <<"obida">>, <<"proshloe">>,
      <<"vospominaniya">>, <<"bolno">>, <<"ne", "otpuskaet">>, <<"toksichnye">>, <<"nasilie">>,
      <<"zhestokost">>
    >>,
    \* identity: кто я, не знаю себя, потерял себя, смысл жизни, предназначение, идентичность, самоопределение, кризис, не понимаю себя
    identity |-> <<
      <<"kto", "ya">>, <<"ne", "znayu", "sebya">>, <<"poteryal", "sebya">>,
      <<"smysl", "zhizni">>, <<"prednaznachenie">>, <<"identichnost">>, <<"samoopredelenie">>,
      <<"krizis">>, <<"ne", "ponimayu", "sebya">>
    >>,
    \* psychosomatic: болит, тело, психосоматика, симптом, здоровье, напряжение, зажим, блок, спина, голова, живот, грудь, горло
    psychosomatic |-> <<
      <<"bolit">>, <<"telo">>, <<"psihosomatika">>, <<"simptom">>, <<"zdorove">>,
      <<"napryazhenie">>, <<"zazhim">>, <<"blok">>, <<"spina">>, <<"golova">>, <<"zhivot">>,
      <<"grud">>, <<"gorlo">>
    >>,
    \* general: 
    general |-> << >>
  ]

\* String.prototype.toLowerCase on one word: the capitalised words of the
\* vocabulary map to their lower-case form, every other word is lower case.
ToLowerWord(w) ==
  CASE w = "Otkladyvayu" -> "otkladyvayu"
    [] w = "Ne" -> "ne"
    [] w = "Na" -> "na"
    [] w = "Menya" -> "menya"
    [] w = "Privet" -> "privet"
    [] w = "Anna" -> "anna"
    [] w = "ANNA" -> "anna"
    [] w = "Oleg" -> "oleg"
    [] w = "Ya" -> "ya"
    [] w = "Boyus" -> "boyus"
    [] w = "Rasskazhi" -> "rasskazhi"
    [] w = "Hochu" -> "hochu"
    [] w = "Rezhim" -> "rezhim"
    [] w = "Zdravstvuj" -> "zdravstvuj"
    [] w = "Strah" -> "strah"
    [] w = "Ustal" -> "ustal"
    [] OTHER -> w

toLowerCase(message) == [ i \in 1..Len(message) |-> ToLowerWord(message[i]) ]

\* String.prototype.includes: the words of keyword occur consecutively.
Includes(message, keyword) ==
  \E i \in 1..(Len(message) - Len(keyword) + 1) :
    \A j \in 1..Len(keyword) : message[i + j - 1] = keyword[j]

\* The projection phrases and the authorship wording offered for each; a
\* pattern is the sequence of the word forms its regular expression accepts.
AUTHORSHIP_TRANSFORMATIONS ==
  <<
    \* /меня (раздражает|бесит|злит)/i
    [ pattern |-> << <<"menya", "razdrazhaet">>, <<"menya", "besit">>, <<"menya", "zlit">> >>,
      transform |-> <<"ya", "razdrazhayus", "na">> ],
    \* /меня обид(ели|ел|ела)/i
    [ pattern |-> << <<"menya", "obideli">>, <<"menya", "obidel">>, <<"menya", "obidela">> >>,
      transform |-> <<"ya", "obidelsya", "kogda">> ],
    \* /он/она меня (заставляет|вынуждает)/i
    [ pattern |-> << <<"on/ona", "menya", "zastavlyaet">>, <<"on/ona", "menya", "vynuzhdaet">> >>,
      transform |-> <<"ya", "chuvstvuyu", "davlenie", "kogda">> ],
    \* /мне не дают/i
    [ pattern |-> << <<"mne", "ne", "dayut">> >>,
      transform |-> <<"ya", "ne", "beru">> ],
    \* /меня не понимают/i
    [ pattern |-> << <<"menya", "ne", "ponimayut">> >>,
      transform |-> <<"ya", "chuvstvuyu", "sebya", "neponyatym", "kogda">> ],
    \* /меня не слышат/i
    [ pattern |-> << <<"menya", "ne", "slyshat">> >>,
      transform |-> <<"ya", "chuvstvuyu", "chto", "menya", "ne", "slyshat", "kogda">> ],
    \* /меня не ценят/i
    [ pattern |-> << <<"menya", "ne", "cenyat">> >>,
      transform |-> <<"ya", "chuvstvuyu", "sebya", "nedoocenyonnym", "kogda">> ],
    \* /меня игнорируют/i
    [ pattern |-> << <<"menya", "ignoriruyut">> >>,
      transform |-> <<"ya", "chuvstvuyu", "sebya", "ignoriruemym", "kogda">> ],
    \* /меня критикуют/i
    [ pattern |-> << <<"menya", "kritikuyut">> >>,
      transform |-> <<"ya", "vosprinimayu", "kak", "kritiku", "kogda">> ],
    \* /на меня давят/i
    [ pattern |-> << <<"na", "menya", "davyat">> >>,
      transform |-> <<"ya", "chuvstvuyu", "davlenie", "kogda">> ],
    \* /мне мешают/i
    [ pattern |-> << <<"mne", "meshayut">> >>,
      transform |-> <<"ya", "vstrechayu", "prepyatstvie", "kogda">> ],
    \* /он/она виноват/i
    [ pattern |-> << <<"on/ona", "vinovat">>, <<"on/ona", "vinovata">> >>,
      transform |-> <<"ya", "chuvstvuyu", "obidu", "iz-za">> ],
    \* /из-за него/неё/i
    [ pattern |-> << <<"iz-za", "nego/neyo">> >>,
      transform |-> <<"v", "situacii", "s", "nim/nej", "ya">> ],
    \* /они заставили меня/i
    [ pattern |-> << <<"oni", "zastavili", "menya">> >>,
      transform |-> <<"ya", "sdelal", "vybor", "pod", "vliyaniem">> ],
    \* /у меня нет выбора/i
    [ pattern |-> << <<"u", "menya", "net", "vybora">> >>,
      transform |-> <<"mne", "slozhno", "uvidet", "alternativy", "kogda">> ],
    \* /я не могу/i
    [ pattern |-> << <<"ya", "ne", "mogu">> >>,
      transform |-> <<"mne", "slozhno">> ],
    \* /это невозможно/i
    [ pattern |-> << <<"eto", "nevozmozhno">> >>,
      transform |-> <<"mne", "poka", "neyasno", "kak">> ],
    \* /живу не своей жизнью/i
    [ pattern |-> << <<"zhivu", "ne", "svoej", "zhiznyu">> >>,
      transform |-> <<"ya", "DELAYU", "tak", "chto", "zhivu", "ne", "svoej", "zhiznyu">> ],
    \* /сижу в клетке/i
    [ pattern |-> << <<"sizhu", "v", "kletke">> >>,
      transform |-> <<"ya", "SAZHAYU", "sebya", "v", "kletku">> ],
    \* /он посадил себя/i
    [ pattern |-> << <<"on", "posadil", "sebya">> >>,
      transform |-> <<"ya", "SAZHAYU", "sebya">> ],
    \* /меня заставили/i
    [ pattern |-> << <<"menya", "zastavili">> >>,
      transform |-> <<"ya", "POZVOLIL">> ],
    \* /меня вынудили/i
    [ pattern |-> << <<"menya", "vynudili">> >>,
      transform |-> <<"ya", "VYBRAL", "pod", "davleniem">> ],
    \* /он меня бесит/i
    [ pattern |-> << <<"on", "menya", "besit">> >>,
      transform |-> <<"ya", "ZLYUS", "kogda", "on">> ],
    \* /она меня бесит/i
    [ pattern |-> << <<"ona", "menya", "besit">> >>,
      transform |-> <<"ya", "ZLYUS", "kogda", "ona">> ],
    \* /меня контролируют/i
    [ pattern |-> << <<"menya", "kontroliruyut">> >>,
      transform |-> <<"ya", "POZVOLYAYU", "sebya", "kontrolirovat">> ],
    \* /меня используют/i
    [ pattern |-> << <<"menya", "ispolzuyut">> >>,
      transform |-> <<"ya", "POZVOLYAYU", "sebya", "ispolzovat">> ],
    \* /меня не уважают/i
    [ pattern |-> << <<"menya", "ne", "uvazhayut">> >>,
      transform |-> <<"ya", "chuvstvuyu", "neuvazhenie", "kogda">> ],
    \* /мне не везёт/i
    [ pattern |-> << <<"mne", "ne", "vezyot">> >>,
      transform |-> <<"ya", "zamechayu", "neudachi", "kogda">> ],
    \* /всё против меня/i
    [ pattern |-> << <<"vsyo", "protiv", "menya">> >>,
      transform |-> <<"ya", "vstrechayu", "soprotivlenie", "kogda">> ],
    \* /у меня забрали/i
    [ pattern |-> << <<"u", "menya", "zabrali">> >>,
      transform |-> <<"ya", "OTDAL">> ],
    \* /меня бросили/i
    [ pattern |-> << <<"menya", "brosili">> >>,
      transform |-> <<"ya", "ostalsya", "odin", "kogda">> ],
    \* /меня предали/i
    [ pattern |-> << <<"menya", "predali">> >>,
      transform |-> <<"ya", "chuvstvuyu", "predatelstvo", "kogda">> ],
    \* /он/она виноват(а)?/i
    [ pattern |-> << <<"on/ona", "vinovat">>, <<"on/ona", "vinovata">> >>,
      transform |-> <<"ya", "chuvstvuyu", "obidu", "iz-za">> ],
    \* /это его/её вина/i
    [ pattern |-> << <<"eto", "ego/eyo", "vina">> >>,
      transform |-> <<"v", "etoj", "situacii", "ya">> ],
    \* /мне плохо из-за/i
    [ pattern |-> << <<"mne", "ploho", "iz-za">> >>,
      transform |-> <<"ya", "chuvstvuyu", "sebya", "ploho", "kogda">> ],
    \* /он/она сделал(а)? мне/i
    [ pattern |-> << <<"on/ona", "sdelal", "mne">>, <<"on/ona", "sdelala", "mne">> >>,
      transform |-> <<"v", "situacii", "s", "nim/nej", "ya", "chuvstvuyu">> ],
    \* /я жертва/i
    [ pattern |-> << <<"ya", "zhertva">> >>,
      transform |-> <<"ya", "nahozhus", "v", "slozhnoj", "situacii", "gde">> ],
    \* /со мной так поступили/i
    [ pattern |-> << <<"so", "mnoj", "tak", "postupili">> >>,
      transform |-> <<"v", "etoj", "situacii", "ya">> ],
    \* /мне навязали/i
    [ pattern |-> << <<"mne", "navyazali">> >>,
      transform |-> <<"ya", "PRINYAL">> ],
    \* /от меня требуют/i
    [ pattern |-> << <<"ot", "menya", "trebuyut">> >>,
      transform |-> <<"ya", "chuvstvuyu", "trebovanie", "kogda">> ],
    \* /меня заставляют/i
    [ pattern |-> << <<"menya", "zastavlyayut">> >>,
      transform |-> <<"ya", "chuvstvuyu", "davlenie">> ]
  >>

\* RegExp.prototype.test of a case-insensitive pattern without anchors.
Test(pattern, message) ==
  \E a \in 1..Len(pattern) : Includes(toLowerCase(message), pattern[a])

\* The reframing of the utterance in the language of authorship: the
\* utterance quoted and the wording of the first pattern that matches it;
\* none when no pattern matches.
transformToAuthorship(message) ==
  LET matching == { t \in 1..Len(AUTHORSHIP_TRANSFORMATIONS) :
                      Test(AUTHORSHIP_TRANSFORMATIONS[t].pattern, message) }
  IN  IF matching = {} THEN None
      ELSE Some([ heard |-> message,
                  transform |-> AUTHORSHIP_TRANSFORMATIONS[Min(matching)].transform ])

\* detectRequestType returning the last category with a match.
detectRequestType_LastMatch(message) ==
  LET lowerMessage == toLowerCase(message)
      hits == { t \in 1..Len(REQUEST_TYPE_ORDER) :
                  /\ REQUEST_TYPE_ORDER[t] # "general"
                  /\ \E k \in 1..Len(REQUEST_TYPE_KEYWORDS[REQUEST_TYPE_ORDER[t]]) :
                       Includes(lowerMessage,
                                REQUEST_TYPE_KEYWORDS[REQUEST_TYPE_ORDER[t]][k]) }
  IN  IF hits = {} THEN "general"
      ELSE REQUEST_TYPE_ORDER[CHOOSE t \in hits : \A u \in hits : u <= t]

detectRequestType(message) ==
  LET lowerMessage == toLowerCase(message)
      hits == { t \in 1..Len(REQUEST_TYPE_ORDER) :
                  /\ REQUEST_TYPE_ORDER[t] # "general"
                  /\ \E k \in 1..Len(REQUEST_TYPE_KEYWORDS[REQUEST_TYPE_ORDER[t]]) :
                       Includes(lowerMessage,
                                REQUEST_TYPE_KEYWORDS[REQUEST_TYPE_ORDER[t]][k]) }
  IN  IF hits = {} THEN "general" ELSE REQUEST_TYPE_ORDER[Min(hits)]

----------------------------------------------------------------------------
(* Fact extractors                                                         *)

\* не знаю, не понимаю, не чувствую, не могу ответить, затрудняюсь, не уверен,
\* не ощущаю, не вижу, непонятно, сложно сказать, не могу сформулировать
IDontKnowPatterns ==
  << <<"ne", "znayu">>, <<"ne", "ponimayu">>, <<"ne", "chuvstvuyu">>,
     <<"ne", "mogu", "otvetit">>, <<"zatrudnyayus">>, <<"ne", "uveren">>,
     <<"ne", "oschuschayu">>, <<"ne", "vizhu">>, <<"neponyatno">>,
     <<"slozhno", "skazat">>, <<"ne", "mogu", "sformulirovat">> >>

detectClientSaysIDontKnow(message) ==
  LET lowerMessage == toLowerCase(message)
  IN  \E p \in 1..Len(IDontKnowPatterns) : Includes(lowerMessage, IDontKnowPatterns[p])

\* The words matched by \d{1,2}, in the order of the number they denote.
NumberWords ==
  << "0", "1", "2", "3", "4", "5", "6", "7", "8", "9", "10", "11", "12" >>

IsNumber(w) == \E n \in 1..Len(NumberWords) : NumberWords[n] = w

parseInt(w) == IndexOf(NumberWords, w)

\* The capture group of the leftmost match of each of the four patterns, or
\* None when the pattern does not match:
\*   /(\d{1,2})\s*(из|\/)\s*10/i   /на\s*(\d{1,2})/i
\*   /оцениваю[^\d]*(\d{1,2})/i    /^(\d{1,2})$/
RatingPatternMatch(p, message) ==
  LET n == Len(message)
      m1 == { i \in 1..(n - 2) : /\ IsNumber(message[i])
                                 /\ ToLowerWord(message[i + 1]) \in {"iz", "/"}
                                 /\ message[i + 2] = "10" }
      m2 == { i \in 1..(n - 1) : /\ ToLowerWord(message[i]) = "na"
                                 /\ IsNumber(message[i + 1]) }
      m3 == { i \in 1..(n - 1) : /\ ToLowerWord(message[i]) = "ocenivayu"
                                 /\ \E j \in (i + 1)..n : IsNumber(message[j]) }
  IN  CASE p = 1 -> IF m1 = {} THEN None ELSE Some(message[Min(m1)])
        [] p = 2 -> IF m2 = {} THEN None ELSE Some(message[Min(m2) + 1])
        [] p = 3 -> IF m3 = {} THEN None
                    ELSE Some(message[Min({ j \in (Min(m3) + 1)..n :
                                              IsNumber(message[j]) })])
        [] p = 4 -> IF n = 1 /\ IsNumber(message[1]) THEN Some(message[1]) ELSE None

extractImportanceRating(message) ==
  LET accepted == { p \in 1..4 :
                      /\ RatingPatternMatch(p, message) # None
                      /\ parseInt(RatingPatternMatch(p, message)[1]) >= 1
                      /\ parseInt(RatingPatternMatch(p, message)[1]) <= 10 }
  IN  IF accepted = {} THEN None
      ELSE Some(parseInt(RatingPatternMatch(Min(accepted), message)[1]))

\* The alternatives of the fixed text before the capture group of each name
\* pattern, in list order:
\*   /меня зовут (..)/i  /зови меня (..)/i  /можешь звать меня (..)/i
\*   /моё? имя (..)/i    /имя[:\s]+(..)/i   /я — (..)/i   /привет,?\s+я (..)/i
NamePatterns ==
  << { <<"menya", "zovut">> },
     { <<"zovi", "menya">> },
     { <<"mozhesh", "zvat", "menya">> },
     { <<"moyo", "imya">>, <<"mo", "imya">> },
     { <<"imya">>, <<"imya:">> },
     { <<"ya", "--">> },
     { <<"privet", "ya">>, <<"privet,", "ya">> } >>

stopWords ==
  { "ya", "mne", "menya", "moj", "moya", "moyo", "eto", "chto", "kak", "tak",
    "hochu", "mogu", "budu", "dolzhen", "chuvstvuyu", "dumayu", "ponimayu",
    "znayu", "vizhu", "slyshu", "delayu", "govoryu", "schitayu", "pomnyu",
    "lyublyu", "nenavizhu", "boyus", "hotel", "byla", "byl", "est",
    "tozhe", "ochen", "prosto", "tut", "tam", "zdes", "sejchas",
    "vsegda", "nikogda", "inogda", "chasto", "redko", "davno",
    "rad", "rada", "gotov", "gotova", "soglasen", "soglasna" }

\* A word made of letters only, which the capture group [а-яёА-ЯЁa-zA-Z]+ takes whole.
IsLetters(w) == ~IsNumber(w) /\ w \notin {"/", "--", "imya:", "privet,"}

\* String length in the source alphabet: the words of the vocabulary are
\* transliterated letter for letter, except the one-letter pronoun.
length(w) == IF ToLowerWord(w) = "ya" THEN 1 ELSE Len(w)

\* charAt(0).toUpperCase() + slice(1).toLowerCase() on the words of the vocabulary.
Capitalize(w) ==
  LET l == ToLowerWord(w)
  IN  CASE l = "anna" -> "Anna"
        [] l = "oleg" -> "Oleg"
        [] l = "boyus" -> "Boyus"
        [] l = "otkladyvayu" -> "Otkladyvayu"
        [] l = "privet" -> "Privet"
        [] l = "menya" -> "Menya"
        [] l = "ne" -> "Ne"
        [] l = "na" -> "Na"
        [] OTHER -> w

\* The capture group of the leftmost match of name pattern p in content, or None.
NamePatternMatch(p, content) ==
  LET lower == toLowerCase(content)
      at == { i \in 1..Len(content) :
                \E pre \in NamePatterns[p] :
                  /\ i + Len(pre) <= Len(content)
                  /\ \A j \in 1..Len(pre) : lower[i + j - 1] = pre[j]
                  /\ IsLetters(content[i + Len(pre)]) }
      pre == CHOOSE q \in NamePatterns[p] :
               /\ Min(at) + Len(q) <= Len(content)
               /\ \A j \in 1..Len(q) : lower[Min(at) + j - 1] = q[j]
               /\ IsLetters(content[Min(at) + Len(q)])
  IN  IF at = {} THEN None ELSE Some(content[Min(at) + Len(pre)])

\* The name that pattern p yields on content, or None when the pattern does
\* not match or its capture is rejected by the length test or the stop words.
NameFromPattern(p, content) ==
  LET match == NamePatternMatch(p, content)
  IN  IF /\ match # None
         /\ length(match[1]) >= 2
         /\ length(match[1]) <= 20
         /\ ToLowerWord(Capitalize(match[1])) \notin stopWords
        THEN Some(Capitalize(match[1]))
        ELSE None

\* extractClientName scanning the history from the latest message back.
extractClientName_LatestFirst(messages) ==
  LET found == { <<m, p>> \in (1..Len(messages)) \X (1..Len(NamePatterns)) :
                   /\ messages[m].role = "user"
                   /\ NameFromPattern(p, messages[m].content) # None }
      first == CHOOSE x \in found :
                 \A y \in found : x[1] > y[1] \/ (x[1] = y[1] /\ x[2] <= y[2])
  IN  IF found = {} THEN None
      ELSE NameFromPattern(first[2], messages[first[1]].content)

extractClientName(messages) ==
  LET found == { <<m, p>> \in (1..Len(messages)) \X (1..Len(NamePatterns)) :
                   /\ messages[m].role = "user"
                   /\ NameFromPattern(p, messages[m].content) # None }
      first == CHOOSE x \in found :
                 \A y \in found : x[1] < y[1] \/ (x[1] = y[1] /\ x[2] <= y[2])
  IN  IF found = {} THEN None
      ELSE NameFromPattern(first[2], messages[first[1]].content)

----------------------------------------------------------------------------
(* Transition evaluator and transition action                              *)

createInitialSessionState ==
  [ currentStage         |-> "start_session",
    stageResponseCount   |-> 0,
    currentQuestionIndex |-> 0,
    stageHistory         |-> << >>,
    context              |->
      [ clientName       |-> None,
        originalRequest  |-> None,
        clarifiedRequest |-> None,
        currentStrategy  |-> None,
        deepNeed         |-> None,
        bodyLocation     |-> None,
        metaphor         |-> None,
        newActions       |-> << >>,
        firstStep        |-> None,
        bodyworkData     |-> [location |-> None],
        metaphorData     |-> [image |-> None],
        metaPositionData |-> [insight |-> None] ],
    requestType          |-> None,
    importanceRating     |-> None,
    lastClientResponse   |-> << >>,
    clientSaysIDontKnow  |-> FALSE,
    movementOffered      |-> FALSE,
    integrationComplete  |-> FALSE,
    sessionStarted       |-> FALSE,
    sessionComplete      |-> FALSE ]

\* shouldTransitionToNextStage without the minResponses gate.
shouldTransitionToNextStage_NoGate(state) ==
  LET stage == state.currentStage
      count == state.stageResponseCount
  IN  CASE stage = "start_session" -> state.context.originalRequest # None
        [] stage = "collect_context" -> state.importanceRating # None \/ count >= 3
        [] stage = "clarify_request" ->
             state.context.clarifiedRequest # None \/ count >= 4
        [] stage = "explore_strategy" ->
             state.context.currentStrategy # None \/ count >= 3
        [] stage = "find_need" -> state.context.deepNeed # None \/ count >= 4
        [] stage = "bodywork" -> state.context.bodyLocation # None \/ count >= 4
        [] stage = "metaphor" -> state.context.metaphor # None \/ count >= 3
        [] stage = "meta_position" ->
             state.context.metaPositionData.insight # None \/ count >= 3
        [] stage = "integration" -> state.integrationComplete \/ count >= 3
        [] stage = "plan_actions" -> state.context.firstStep # None \/ count >= 3
        [] stage = "finish" -> count >= 2
        [] OTHER -> count >= MPT_STAGE_CONFIG[stage].minResponses

shouldTransitionToNextStage(state) ==
  LET config == MPT_STAGE_CONFIG[state.currentStage]
      stage == state.currentStage
      count == state.stageResponseCount
  IN  IF count < config.minResponses THEN FALSE
      ELSE CASE stage = "start_session" -> state.context.originalRequest # None
             [] stage = "collect_context" -> state.importanceRating # None \/ count >= 3
             [] stage = "clarify_request" ->
                  state.context.clarifiedRequest # None \/ count >= 4
             [] stage = "explore_strategy" ->
                  state.context.currentStrategy # None \/ count >= 3
             [] stage = "find_need" -> state.context.deepNeed # None \/ count >= 4
             [] stage = "bodywork" -> state.context.bodyLocation # None \/ count >= 4
             [] stage = "metaphor" -> state.context.metaphor # None \/ count >= 3
             [] stage = "meta_position" ->
                  state.context.metaPositionData.insight # None \/ count >= 3
             [] stage = "integration" -> state.integrationComplete \/ count >= 3
             [] stage = "plan_actions" -> state.context.firstStep # None \/ count >= 3
             [] stage = "finish" -> count >= 2
             [] OTHER -> count >= config.minResponses

\* getNextStage with an index that is one too far.
getNextStage_SkipsOne(currentStage) ==
  LET currentIndex == IndexOf(MPT_STAGE_ORDER, currentStage)
  IN  IF currentIndex = -1 \/ currentIndex >= Len(MPT_STAGE_ORDER) - 1
        THEN None
        ELSE Some(MPT_STAGE_ORDER[Min({(currentIndex + 2) + 1, Len(MPT_STAGE_ORDER)})])

getNextStage(currentStage) ==
  LET currentIndex == IndexOf(MPT_STAGE_ORDER, currentStage)
  IN  IF currentIndex = -1 \/ currentIndex >= Len(MPT_STAGE_ORDER) - 1
        THEN None
        ELSE Some(MPT_STAGE_ORDER[(currentIndex + 1) + 1])

\* transitionToNextStage that does not log the stage it leaves.
transitionToNextStage_KeepsHistory(state) ==
  LET nextStage == getNextStage(state.currentStage)
  IN  IF nextStage = None
        THEN [state EXCEPT !.sessionComplete = TRUE]
        ELSE [state EXCEPT !.currentStage = nextStage[1],
                           !.stageResponseCount = 0,
                           !.currentQuestionIndex = 0]

\* transitionToNextStage that resets and logs at the end of the order too.
transitionToNextStage_LogsAtEnd(state) ==
  LET nextStage == getNextStage(state.currentStage)
  IN  [state EXCEPT !.currentStage = IF nextStage = None THEN @ ELSE nextStage[1],
                    !.sessionComplete = IF nextStage = None THEN TRUE ELSE @,
                    !.stageResponseCount = 0,
                    !.currentQuestionIndex = 0,
                    !.stageHistory = Append(state.stageHistory, state.currentStage)]

transitionToNextStage(state) ==
  LET nextStage == getNextStage(state.currentStage)
  IN  IF nextStage = None
        THEN [state EXCEPT !.sessionComplete = TRUE]
        ELSE [state EXCEPT !.currentStage = nextStage[1],
                           !.stageResponseCount = 0,
                           !.currentQuestionIndex = 0,
                           !.stageHistory = Append(state.stageHistory, state.currentStage)]

\* The phase label of a session is the stage's russianName; the stage stands for it.
getPhaseFromStage(stage) == stage

----------------------------------------------------------------------------
(* Bot modes                                                               *)

BotMode == { "therapist", "educator", "practice_client", "supervisor", "chat" }

\* practiceKeywords: хочу попрактиковаться, потренироваться, давай я буду терапевтом, будь клиентом, стань клиентом, выступи в роли клиента, я терапевт, буду вести сессию, практика терапии, поиграем в терапию, режим практики, режим клиента, я хочу практиковать, в роли терапевта, ты будешь клиентом
practiceKeywords ==
  << <<"hochu", "popraktikovatsya">>, <<"potrenirovatsya">>,
     <<"davaj", "ya", "budu", "terapevtom">>, <<"bud", "klientom">>,
     <<"stan", "klientom">>, <<"vystupi", "v", "roli", "klienta">>,
     <<"ya", "terapevt">>, <<"budu", "vesti", "sessiyu">>,
     <<"praktika", "terapii">>, <<"poigraem", "v", "terapiyu">>,
     <<"rezhim", "praktiki">>, <<"rezhim", "klienta">>,
     <<"ya", "hochu", "praktikovat">>, <<"v", "roli", "terapevta">>,
     <<"ty", "budesh", "klientom">> >>

\* supervisorKeywords: разбери сессию, проанализируй сессию, дай обратную связь, супервизия, разбор сессии, что я сделал не так, оцени мою работу, рекомендации по сессии, анализ сессии, режим супервизии, проверь мою технику, какие ошибки, что улучшить
supervisorKeywords ==
  << <<"razberi", "sessiyu">>, <<"proanaliziruj", "sessiyu">>,
     <<"daj", "obratnuyu", "svyaz">>, <<"superviziya">>,
     <<"razbor", "sessii">>, <<"chto", "ya", "sdelal", "ne", "tak">>,
     <<"oceni", "moyu", "rabotu">>, <<"rekomendacii", "po", "sessii">>,
     <<"analiz", "sessii">>, <<"rezhim", "supervizii">>,
     <<"prover", "moyu", "tehniku">>, <<"kakie", "oshibki">>,
     <<"chto", "uluchshit">> >>

\* educatorKeywords: что такое мпт, как работает мпт, объясни мпт, расскажи про мпт, как понять, что значит, зачем нужен, в чём смысл, как определить, какой принцип, почему важно, как это работает, что за техника, когда использовать, как правильно, в чём разница, научи меня, объясни технику, теория мпт, метод волынского, как ты понимаешь, что имеется в виду, поясни
educatorKeywords ==
  << <<"chto", "takoe", "mpt">>, <<"kak", "rabotaet", "mpt">>,
     <<"obyasni", "mpt">>, <<"rasskazhi", "pro", "mpt">>,
     <<"kak", "ponyat">>, <<"chto", "znachit">>, <<"zachem", "nuzhen">>,
     <<"v", "chyom", "smysl">>, <<"kak", "opredelit">>,
     <<"kakoj", "princip">>, <<"pochemu", "vazhno">>,
     <<"kak", "eto", "rabotaet">>, <<"chto", "za", "tehnika">>,
     <<"kogda", "ispolzovat">>, <<"kak", "pravilno">>,
     <<"v", "chyom", "raznica">>, <<"nauchi", "menya">>,
     <<"obyasni", "tehniku">>, <<"teoriya", "mpt">>,
     <<"metod", "volynskogo">>, <<"kak", "ty", "ponimaesh">>,
     <<"chto", "imeetsya", "v", "vidu">>, <<"poyasni">> >>

\* выйти из режима, завершить практику, обычный режим, режим терапевта
ExitCommands ==
  << <<"vyjti", "iz", "rezhima">>, <<"zavershit", "praktiku">>,
     <<"obychnyj", "rezhim">>, <<"rezhim", "terapevta">> >>

\* Array.prototype.join(' ') of the lower-cased contents of messages.
RECURSIVE JoinContents(_)
JoinContents(messages) ==
  IF messages = << >> THEN << >>
  ELSE toLowerCase(Head(messages).content) \o JoinContents(Tail(messages))

\* Array.prototype.slice(-n)
LastN(seq, n) == SubSeq(seq, IF Len(seq) > n THEN Len(seq) - n + 1 ELSE 1, Len(seq))

SomeKeyword(keywords, text) == \E k \in 1..Len(keywords) : Includes(text, keywords[k])

detectBotMode(message, conversationHistory) ==
  LET lowerMessage == toLowerCase(message)
      lastMessages == JoinContents(LastN(conversationHistory, 4))
      fullContext == lowerMessage \o lastMessages
  IN  IF SomeKeyword(practiceKeywords, fullContext) THEN "practice_client"
      ELSE IF SomeKeyword(supervisorKeywords, fullContext) THEN "supervisor"
      ELSE IF SomeKeyword(educatorKeywords, lowerMessage) THEN "educator"
      ELSE "therapist"

\* POST /api/chat, mode tracking: the mode a turn is handled in.
ActiveMode(currentMode, detectedMode, message) ==
  IF SomeKeyword(ExitCommands, toLowerCase(message)) THEN "therapist"
  ELSE IF detectedMode # "therapist" /\ detectedMode # "chat" THEN detectedMode
  ELSE currentMode

\* POST /api/chat, mode tracking: sessionModes after the turn of session sid.
UpdatedSessionModes(modes, sid, detectedMode, message) ==
  IF \/ SomeKeyword(ExitCommands, toLowerCase(message))
     \/ (detectedMode # "therapist" /\ detectedMode # "chat")
    THEN [ k \in DOMAIN modes \cup {sid} |->
             IF k = sid
               THEN ActiveMode("therapist", detectedMode, message)
               ELSE modes[k] ]
    ELSE modes

----------------------------------------------------------------------------
(* Directive composition                                                   *)

\* A non-empty string: what a JavaScript condition takes for true.
Truthy(v) == v # None /\ v # Some("")

\* The questions getHelpingQuestion can return: the helper of a stage
\* (stageSpecificHelpers[stage][0]) or one of the four generic ones.
getHelpingQuestion(stage, originalQuestion) ==
  IF Includes(originalQuestion, <<"chuvstvu">>) \/ Includes(originalQuestion, <<"oschusch">>)
    THEN [kind |-> "generic", of |-> "feeling"]
  ELSE IF Includes(originalQuestion, <<"ponima">>) \/ Includes(originalQuestion, <<"dumaesh">>)
    THEN [kind |-> "generic", of |-> "understanding"]
  ELSE IF \/ Includes(originalQuestion, <<"vid">>)
          \/ Includes(originalQuestion, <<"obraz">>)
          \/ Includes(originalQuestion, <<"metafor">>)
    THEN [kind |-> "generic", of |-> "image"]
  ELSE IF Includes(originalQuestion, <<"tel">>) \/ Includes(originalQuestion, <<"gde">>)
    THEN [kind |-> "generic", of |-> "body"]
  ELSE [kind |-> "stage", of |-> stage]

\* generateStagePrompt written for the stage the turn has just left.
generateStagePrompt_StageLeft(state) ==
  [ stage |-> IF state.stageResponseCount = 0 /\ state.stageHistory # << >>
                THEN state.stageHistory[Len(state.stageHistory)]
                ELSE state.currentStage,
    helper |-> IF state.clientSaysIDontKnow
                 THEN Some(getHelpingQuestion(state.currentStage, << >>))
                 ELSE None,
    clientName |-> IF Truthy(state.context.clientName)
                     THEN state.context.clientName ELSE None ]

\* generateStagePrompt: the stage whose header and instructions are written,
\* the "if you did know" section and the client name line.
generateStagePrompt(state) ==
  [ stage |-> state.currentStage,
    helper |-> IF state.clientSaysIDontKnow
                 THEN Some(getHelpingQuestion(state.currentStage, << >>))
                 ELSE None,
    clientName |-> IF Truthy(state.context.clientName)
                     THEN state.context.clientName ELSE None ]

IMPLEMENTATION_PRACTICES ==
  { "morning-connection", "anchor-word", "body-check", "evening-review",
    "new-action", "metaphor-journal", "breath-anchor", "trigger-practice" }

\* selectHomework with the body check ranked above the metaphor check.
selectHomework_BodyFirst(context) ==
  IF Truthy(context.bodyLocation) \/ Truthy(context.bodyworkData.location)
    THEN "body-check"
  ELSE IF Truthy(context.metaphor) \/ Truthy(context.metaphorData.image)
    THEN "morning-connection"
  ELSE IF Len(context.newActions) > 0 \/ Truthy(context.firstStep)
    THEN "new-action"
  ELSE "breath-anchor"

selectHomework(context) ==
  IF Truthy(context.metaphor) \/ Truthy(context.metaphorData.image)
    THEN "morning-connection"
  ELSE IF Truthy(context.bodyLocation) \/ Truthy(context.bodyworkData.location)
    THEN "body-check"
  ELSE IF Len(context.newActions) > 0 \/ Truthy(context.firstStep)
    THEN "new-action"
  ELSE "breath-anchor"

\* The prompt of the educator, practice_client and supervisor modes: one
\* fixed text, no section composed from the session state.
ModePrompt(mode) ==
  [ base |-> mode, stagePrompt |-> None, clientName |-> None,
    importanceRating |-> None, seekDeeper |-> FALSE, helpingQ |-> None,
    requestType |-> None, homework |-> None, progress |-> None,
    authorship |-> None ]

\* The therapist prompt without the section written when the client says
\* "I don't know", in generateStagePrompt as well.
TherapistPrompt_NoHelper(sessionState, authorshipTransform) ==
  [ base |-> "therapist",
    stagePrompt |-> Some([generateStagePrompt(sessionState) EXCEPT !.helper = None]),
    clientName |-> IF Truthy(sessionState.context.clientName)
                     THEN sessionState.context.clientName ELSE None,
    importanceRating |-> sessionState.importanceRating,
    seekDeeper |-> sessionState.importanceRating # None
                     /\ sessionState.importanceRating[1] < 8,
    helpingQ |-> None,
    requestType |-> IF sessionState.requestType # None
                         /\ sessionState.requestType # Some("general")
                      THEN sessionState.requestType ELSE None,
    homework |-> IF sessionState.currentStage = "finish"
                   THEN Some(selectHomework(sessionState.context)) ELSE None,
    progress |-> Some([ stage |-> sessionState.currentStage,
                        count |-> sessionState.stageResponseCount,
                        history |-> sessionState.stageHistory ]),
    authorship |-> authorshipTransform ]

\* The therapist prompt that keeps offering the reframing of the original
\* request on turns whose utterance has no projection phrase.
TherapistPrompt_KeepsAuthorship(sessionState, authorshipTransform) ==
  [ base |-> "therapist",
    stagePrompt |-> Some(generateStagePrompt(sessionState)),
    clientName |-> IF Truthy(sessionState.context.clientName)
                     THEN sessionState.context.clientName ELSE None,
    importanceRating |-> sessionState.importanceRating,
    seekDeeper |-> sessionState.importanceRating # None
                     /\ sessionState.importanceRating[1] < 8,
    helpingQ |-> IF sessionState.clientSaysIDontKnow
                   THEN Some(getHelpingQuestion(sessionState.currentStage, << >>))
                   ELSE None,
    requestType |-> IF sessionState.requestType # None
                         /\ sessionState.requestType # Some("general")
                      THEN sessionState.requestType ELSE None,
    homework |-> IF sessionState.currentStage = "finish"
                   THEN Some(selectHomework(sessionState.context)) ELSE None,
    progress |-> Some([ stage |-> sessionState.currentStage,
                        count |-> sessionState.stageResponseCount,
                        history |-> sessionState.stageHistory ]),
    authorship |-> IF authorshipTransform # None THEN authorshipTransform
                   ELSE IF sessionState.context.originalRequest # None
                     THEN transformToAuthorship(sessionState.context.originalRequest[1])
                     ELSE None ]

\* POST /api/chat, default branch of the prompt selection: the sections
\* appended to BASE_MPT_PRINCIPLES + FLEXIBLE_RESPONSE_RULES.
TherapistPrompt(sessionState, authorshipTransform) ==
  [ base |-> "therapist",
    stagePrompt |-> Some(generateStagePrompt(sessionState)),
    clientName |-> IF Truthy(sessionState.context.clientName)
                     THEN sessionState.context.clientName ELSE None,
    importanceRating |-> sessionState.importanceRating,
    seekDeeper |-> sessionState.importanceRating # None
                     /\ sessionState.importanceRating[1] < 8,
    helpingQ |-> IF sessionState.clientSaysIDontKnow
                   THEN Some(getHelpingQuestion(sessionState.currentStage, << >>))
                   ELSE None,
    requestType |-> IF sessionState.requestType # None
                         /\ sessionState.requestType # Some("general")
                      THEN sessionState.requestType ELSE None,
    homework |-> IF sessionState.currentStage = "finish"
                   THEN Some(selectHomework(sessionState.context)) ELSE None,
    progress |-> Some([ stage |-> sessionState.currentStage,
                        count |-> sessionState.stageResponseCount,
                        history |-> sessionState.stageHistory ]),
    authorship |-> authorshipTransform ]

\* POST /api/chat, prompt selection by mode.
ContextualPrompt(activeMode, sessionState, authorshipTransform) ==
  IF activeMode \in { "educator", "practice_client", "supervisor" }
    THEN ModePrompt(activeMode)
    ELSE TherapistPrompt(sessionState, authorshipTransform)

----------------------------------------------------------------------------
(* Text-generation providers                                               *)

\* Retry Cerebras every 5 minutes; the clock counts minutes.
FALLBACK_RETRY_INTERVAL == 5

----------------------------------------------------------------------------
(* Server state and request handlers                                       *)

VARIABLES
  sessions,              \* Map<string, Session>: session id -> [messages, phase]
  sessionStates,         \* Map<string, SessionState>
  sessionModes,          \* Map<string, BotMode>
  sessionFallbackState,  \* Map<string, { useFallback, fallbackTime }>
  now,                   \* Date.now(), in minutes
  clients,               \* which provider clients were constructed at start-up
  stream,                \* locals of one request while its reply is streamed
  inflight,              \* /api/chat requests suspended at the awaited generation call
  response,              \* handler step that ran last: outcome, session, providers tried
  app,                   \* browser: state of App
  page,                  \* browser: state of the mounted ChatPage
  savedSessions          \* browser: localStorage["mpt-sessions"], the stored array

server == << sessions, sessionStates, sessionModes, sessionFallbackState, now,
             clients, stream, inflight, response >>

client == << app, page, savedSessions >>

vars == << sessions, sessionStates, sessionModes, sessionFallbackState, now,
           clients, stream, inflight, response, app, page, savedSessions >>

\* The Cerebras client exists when CEREBRAS_API_KEY is set, the Algion client
\* when ALGION_API_KEY is set.
cerebrasClient == clients.cerebras
algionClient == clients.algion

\* Both CEREBRAS_API_KEY and ALGION_API_KEY are set.
BothClients == [cerebras |-> TRUE, algion |-> TRUE]

\* No reply is being streamed: the locals of the request as declared.
\* output is what the provider called will produce and delivered how much of
\* it has arrived; forwarded is the concatenation of the chunk events sent
\* and switchedAt its length when the provider_switch event was sent; stored
\* is the content of the assistant message pushed to the session.
IdleStream ==
  [ provider |-> "none", output |-> << >>, delivered |-> 0,
    insideThinkBlock |-> FALSE, rawContent |-> << >>, fullContent |-> << >>,
    forwarded |-> << >>, switchedAt |-> None, stored |-> None ]

\* Map.prototype.set with every entry of the map bound to the one value.
MapSet_SharedValue(map, key, value) == [ k \in DOMAIN map \cup {key} |-> value ]

\* Map.prototype.set
MapSet(map, key, value) ==
  [ k \in DOMAIN map \cup {key} |-> IF k = key THEN value ELSE map[k] ]

\* Map.prototype.delete
MapDelete(map, key) == [ k \in DOMAIN map \ {key} |-> map[k] ]

\* The identifiers randomUUID can return.
SessionIds == { "s1" }

\* The text a successful generation call leaves in fullContent.
AssistantReply == << "otvet" >>

\* "Хорошо, я клиент — ты МПТ терапевт, начинай!"
FixedResponse == << "horosho", "ya", "klient", "ty", "mpt", "terapevt", "nachinaj" >>

UserMessage(message) == [role |-> "user", content |-> message]

AssistantMessage(content) == [role |-> "assistant", content |-> content]

UserMessageCount(sid) ==
  Cardinality({ i \in 1..Len(sessions[sid].messages) :
                  sessions[sid].messages[i].role = "user" })

\* POST /api/chat, session creation branch: the session record stored for a
\* request that names no known session.
CreatedSession == [ messages |-> << >>, phase |-> getPhaseFromStage("start_session") ]

\* The creation branch without the request recorded in the context.
CreatedSessionState_NoRequest(message) ==
  [ createInitialSessionState EXCEPT
      !.requestType = Some(detectRequestType(message)),
      !.sessionStarted = TRUE ]

\* POST /api/chat, session creation branch: the SessionState stored for a
\* request that names no known session.
CreatedSessionState(message) ==
  [ createInitialSessionState EXCEPT
      !.requestType = Some(detectRequestType(message)),
      !.context.originalRequest = Some(message),
      !.sessionStarted = TRUE ]

\* POST /api/chat, state update: a client name found in the history is
\* stored in the context.
Named(state, clientName) ==
  IF clientName # None
    THEN [state EXCEPT !.context.clientName = clientName]
    ELSE state

\* The rating stored only while the session is at collect_context.
Rated_OnlyAtCollect(state, importanceRating) ==
  IF importanceRating # None /\ state.currentStage = "collect_context"
    THEN [state EXCEPT !.importanceRating = importanceRating]
    ELSE state

\* POST /api/chat, state update: an importance rating found in the utterance
\* is stored.
Rated(state, importanceRating) ==
  IF importanceRating # None
    THEN [state EXCEPT !.importanceRating = importanceRating]
    ELSE state

\* The transition applied twice when the stage's condition holds.
Transitioned_Twice(state) ==
  IF shouldTransitionToNextStage(state)
    THEN transitionToNextStage(transitionToNextStage(state))
    ELSE state

\* POST /api/chat, state update: the transition is applied when the stage's
\* condition holds.
Transitioned(state) ==
  IF shouldTransitionToNextStage(state)
    THEN transitionToNextStage(state)
    ELSE state

\* The state update with the category classified again on every turn.
UpdatedSessionState_Reclassifies(state, message, messages) ==
  LET counted == [ state EXCEPT
                     !.lastClientResponse = message,
                     !.clientSaysIDontKnow = detectClientSaysIDontKnow(message),
                     !.stageResponseCount = @ + 1,
                     !.requestType = Some(detectRequestType(message)) ]
  IN  Transitioned(Rated(Named(counted, extractClientName(messages)),
                         extractImportanceRating(message)))

\* The state update with the counter taken from the length of the stored
\* history, assistant messages included.
UpdatedSessionState_CountsHistory(state, message, messages) ==
  LET counted == [ state EXCEPT
                     !.lastClientResponse = message,
                     !.clientSaysIDontKnow = detectClientSaysIDontKnow(message),
                     !.stageResponseCount = Len(messages) ]
  IN  Transitioned(Rated(Named(counted, extractClientName(messages)),
                         extractImportanceRating(message)))

\* The state update with an evasion flag that, once set, stays set.
UpdatedSessionState_StickyFlag(state, message, messages) ==
  LET counted == [ state EXCEPT
                     !.lastClientResponse = message,
                     !.clientSaysIDontKnow = @ \/ detectClientSaysIDontKnow(message),
                     !.stageResponseCount = @ + 1 ]
  IN  Transitioned(Rated(Named(counted, extractClientName(messages)),
                         extractImportanceRating(message)))

\* The state update that counts only the utterances no bot mode is detected
\* for.
UpdatedSessionState_TherapistOnly(state, message, messages) ==
  LET counted == [ state EXCEPT
                     !.lastClientResponse = message,
                     !.clientSaysIDontKnow = detectClientSaysIDontKnow(message),
                     !.stageResponseCount = @ + 1 ]
  IN  IF detectBotMode(message, messages) = "therapist"
        THEN Transitioned(Rated(Named(counted, extractClientName(messages)),
                                extractImportanceRating(message)))
        ELSE [ state EXCEPT !.lastClientResponse = message ]

\* The state update that takes the utterance received at clarify_request as
\* the clarified request.
UpdatedSessionState_FillsContext(state, message, messages) ==
  LET counted == [ state EXCEPT
                     !.lastClientResponse = message,
                     !.clientSaysIDontKnow = detectClientSaysIDontKnow(message),
                     !.stageResponseCount = @ + 1,
                     !.context.clarifiedRequest =
                        IF state.currentStage = "clarify_request"
                          THEN Some(message) ELSE @ ]
  IN  Transitioned(Rated(Named(counted, extractClientName(messages)),
                         extractImportanceRating(message)))

\* POST /api/chat, state update: the SessionState after the utterance message
\* has been counted, the extractors merged and the transition applied;
\* messages is the session's history with the utterance already appended.
UpdatedSessionState(state, message, messages) ==
  LET counted == [ state EXCEPT
                     !.lastClientResponse = message,
                     !.clientSaysIDontKnow = detectClientSaysIDontKnow(message),
                     !.stageResponseCount = @ + 1 ]
  IN  Transitioned(Rated(Named(counted, extractClientName(messages)),
                         extractImportanceRating(message)))

\* chatRequestSchema: message is a string of length >= 1 (None stands for a
\* body without a string message); sessionId is optional.
chatRequestSchema(body) == body.message # None /\ Len(body.message[1]) >= 1

\* The handler with the session looked up and created before the body is
\* validated.
ChatInvalid_CreatesSession(body) ==
  /\ ~chatRequestSchema(body)
  /\ sessions' = IF body.sessionId # None /\ body.sessionId[1] \notin DOMAIN sessions
                   THEN MapSet(sessions, body.sessionId[1], CreatedSession)
                   ELSE sessions
  /\ response' = [kind |-> "invalid", sid |-> None, providers |-> << >>]
  /\ UNCHANGED << sessionStates, sessionModes, sessionFallbackState, now, clients, stream, inflight >>

\* POST /api/chat with a body that fails chatRequestSchema: status 400.
ChatInvalid(body) ==
  /\ ~chatRequestSchema(body)
  /\ response' = [kind |-> "invalid", sid |-> None, providers |-> << >>]
  /\ UNCHANGED << sessions, sessionStates, sessionModes, sessionFallbackState,
                  now, clients, stream, inflight >>

\* The fallback decision without the retry interval.
UseFallbackForThisRequest_NeverRetries(fallbackState, time) ==
  /\ fallbackState # None
  /\ fallbackState[1].useFallback
  /\ algionClient

\* POST /api/chat, fallback decision: whether the request goes to Algion
\* without trying Cerebras.
UseFallbackForThisRequest(fallbackState, time) ==
  /\ fallbackState # None
  /\ fallbackState[1].useFallback
  /\ algionClient
  /\ ~(time - fallbackState[1].fallbackTime > FALLBACK_RETRY_INTERVAL)

\* POST /api/chat up to the awaited generation call: session lookup or
\* creation, push of the user message, state update, mode tracking, prompt
\* selection, fallback decision, meta event; the first message of a
\* practice_client session is answered with the fixed reply at once.
ChatRequest(message, sessionId, uuid) ==
  /\ message # << >>
  /\ LET known == sessionId # None /\ sessionId[1] \in DOMAIN sessions
         sid == IF known THEN sessionId[1] ELSE uuid
         session == IF known THEN sessions[sid] ELSE CreatedSession
         messages == Append(session.messages, UserMessage(message))
         stored == IF known THEN sessionStates
                   ELSE MapSet(sessionStates, sid, CreatedSessionState(message))
         sessionState == IF sid \in DOMAIN stored
                           THEN stored[sid]
                           ELSE [ createInitialSessionState EXCEPT
                                    !.context.originalRequest = Some(message) ]
         updated == UpdatedSessionState(sessionState, message, messages)
         detectedMode == detectBotMode(message, messages)
         currentMode == IF sid \in DOMAIN sessionModes
                          THEN sessionModes[sid] ELSE "therapist"
         activeMode == ActiveMode(currentMode, detectedMode, message)
         isPracticeClientFirstMessage ==
           /\ activeMode = "practice_client"
           /\ detectedMode = "practice_client"
           /\ Len(messages) = 1
         fallbackState == IF sid \in DOMAIN sessionFallbackState
                            THEN Some(sessionFallbackState[sid]) ELSE None
         useFallbackForThisRequest == UseFallbackForThisRequest(fallbackState, now)
     IN  /\ ~known => uuid \notin DOMAIN sessions
         /\ sessionStates' = MapSet(stored, sid, updated)
         /\ sessionModes' = UpdatedSessionModes(sessionModes, sid, detectedMode, message)
         /\ IF isPracticeClientFirstMessage
              THEN /\ sessions' = MapSet(sessions, sid,
                          [session EXCEPT !.messages =
                             Append(messages, AssistantMessage(FixedResponse))])
                   /\ response' = [kind |-> "done", sid |-> Some(sid),
                                   providers |-> << >>]
                   /\ UNCHANGED << sessionFallbackState, inflight >>
              ELSE /\ sessions' = MapSet(sessions, sid,
                                         [session EXCEPT !.messages = messages])
                   /\ sessionFallbackState' =
                        IF /\ fallbackState # None
                           /\ fallbackState[1].useFallback
                           /\ ~algionClient
                          THEN MapDelete(sessionFallbackState, sid)
                          ELSE sessionFallbackState
                   /\ inflight' = inflight \cup
                        { [ sid |-> sid,
                            req |-> Len(messages),
                            botMode |-> activeMode,
                            contextualPrompt |->
                              ContextualPrompt(activeMode, updated,
                                               transformToAuthorship(message)),
                            provider |-> IF useFallbackForThisRequest
                                           THEN "algion" ELSE "cerebras",
                            hadFallback |-> fallbackState # None
                                              /\ fallbackState[1].useFallback ] }
                   /\ response' = [kind |-> "meta", sid |-> Some(sid),
                                   providers |-> << >>]
         /\ UNCHANGED << now, clients, stream >>

\* The assistant message of a generation call that succeeded is stored, the
\* phase refreshed and the done event sent.
Answered(r, providers) ==
  /\ sessions' = [ sessions EXCEPT
                     ![r.sid].messages = Append(@, AssistantMessage(AssistantReply)),
                     ![r.sid].phase = getPhaseFromStage(sessionStates[r.sid].currentStage) ]
  /\ inflight' = inflight \ {r}
  /\ response' = [kind |-> "done", sid |-> Some(r.sid), providers |-> providers]

\* POST /api/chat, provider choice: the request goes to Algion when the
\* fallback decision says so or no Cerebras client exists, else to Cerebras;
\* r.provider is the currentProvider the meta event was written with.
FirstAttempt(r) ==
  IF r.provider = "algion" \/ ~cerebrasClient THEN "algion" ELSE "cerebras"

\* POST /api/chat after the first provider tried has answered: a Cerebras
\* success clears the fallback state the request started with.
ChatDone(r) ==
  /\ r \in inflight
  /\ IF FirstAttempt(r) = "cerebras" THEN cerebrasClient ELSE algionClient
  /\ Answered(r, << FirstAttempt(r) >>)
  /\ sessionFallbackState' =
       IF FirstAttempt(r) = "cerebras" /\ r.hadFallback
         THEN MapDelete(sessionFallbackState, r.sid)
         ELSE sessionFallbackState
  /\ UNCHANGED << sessionStates, sessionModes, now, clients, stream >>

\* The switch to Algion without a record of it.
ChatFallback_KeepsState(r) ==
  /\ r \in inflight
  /\ r.provider = "cerebras"
  /\ algionClient
  /\ Answered(r, << FirstAttempt(r), "algion" >>)
  /\ UNCHANGED << sessionFallbackState, sessionStates, sessionModes, now, clients, stream >>

\* POST /api/chat after the first attempt of a request announced for
\* Cerebras has failed and Algion has answered: the fallback state of the
\* session is set.
ChatFallback(r) ==
  /\ r \in inflight
  /\ r.provider = "cerebras"
  /\ algionClient
  /\ Answered(r, << FirstAttempt(r), "algion" >>)
  /\ sessionFallbackState' =
       MapSet(sessionFallbackState, r.sid, [useFallback |-> TRUE, fallbackTime |-> now])
  /\ UNCHANGED << sessionStates, sessionModes, now, clients, stream >>

\* POST /api/chat after the generation call has failed on every provider
\* tried: the outer catch reports the error and stores no message.
ChatError(r) ==
  /\ r \in inflight
  /\ inflight' = inflight \ {r}
  /\ response' = [kind |-> "error", sid |-> Some(r.sid),
                   providers |-> IF ~cerebrasClient /\ ~algionClient
                                   THEN << >>
                                 ELSE IF r.provider = "cerebras" /\ algionClient
                                   THEN << FirstAttempt(r), "algion" >>
                                   ELSE << FirstAttempt(r) >>]
  /\ sessionFallbackState' =
       IF r.provider = "cerebras" /\ algionClient
         THEN MapSet(sessionFallbackState, r.sid,
                     [useFallback |-> TRUE, fallbackTime |-> now])
         ELSE sessionFallbackState
  /\ UNCHANGED << sessions, sessionStates, sessionModes, now, clients, stream >>

\* POST /api/sessions/new
NewSession(uuid) ==
  /\ uuid \notin DOMAIN sessions
  /\ sessions' = MapSet(sessions, uuid, CreatedSession)
  /\ sessionStates' = MapSet(sessionStates, uuid, createInitialSessionState)
  /\ response' = [kind |-> "created", sid |-> Some(uuid), providers |-> << >>]
  /\ UNCHANGED << sessionModes, sessionFallbackState, now, clients, stream, inflight >>

\* Time passes between two handler steps.
Tick(minutes) ==
  /\ now' = now + minutes
  /\ UNCHANGED << sessions, sessionStates, sessionModes, sessionFallbackState,
                  clients, stream, inflight, response >>

----------------------------------------------------------------------------
(* Streaming of one reply                                                  *)

\* "<think>" and "</think>", one character per element.
OpenThink == << "<", "t", "h", "i", "n", "k", ">" >>
CloseThink == << "<", "/", "t", "h", "i", "n", "k", ">" >>

\* content.slice(i).startsWith(tag), with i counted from 1.
StartsWithAt(content, i, tag) ==
  /\ i + Len(tag) - 1 <= Len(content)
  /\ SubSeq(content, i, i + Len(tag) - 1) = tag

\* The loop of filterThinkTags from position i on: outside a think block an
\* opening tag is skipped and any other character copied, inside one a
\* closing tag is skipped and any other character dropped.
RECURSIVE FilterLoop(_, _, _, _)
FilterLoop(content, i, insideThinkBlock, result) ==
  IF i > Len(content)
    THEN [result |-> result, insideThinkBlock |-> insideThinkBlock]
  ELSE IF ~insideThinkBlock
    THEN IF StartsWithAt(content, i, OpenThink)
           THEN FilterLoop(content, i + Len(OpenThink), TRUE, result)
           ELSE FilterLoop(content, i + 1, FALSE, Append(result, content[i]))
    ELSE IF StartsWithAt(content, i, CloseThink)
           THEN FilterLoop(content, i + Len(CloseThink), FALSE, result)
           ELSE FilterLoop(content, i + 1, TRUE, result)

\* filterThinkTags applied to one chunk: the text to forward and the value
\* insideThinkBlock is left with.
filterThinkTags(content, insideThinkBlock) ==
  FilterLoop(content, 1, insideThinkBlock, << >>)

\* "Произошла ошибка. Пожалуйста, попробуй ещё раз."
EmptyReplyContent == << "!" >>

\* The stream has one more chunk: its content is filtered, appended to
\* rawContent and, when something is left of it, appended to fullContent and
\* sent as a chunk event.
Chunked(locals, content, filtered) ==
  [ locals EXCEPT
      !.delivered = @ + Len(content),
      !.rawContent = @ \o content,
      !.insideThinkBlock = filtered.insideThinkBlock,
      !.fullContent = @ \o filtered.result,
      !.forwarded = @ \o filtered.result ]

\* streamWithCerebras / streamWithAlgion, one turn of the chunk loop: the
\* provider delivers the next size characters of its output.
StreamChunk(size) ==
  /\ stream.provider \in { "cerebras", "algion" }
  /\ stream.delivered + size <= Len(stream.output)
  /\ stream' = Chunked(stream,
                       SubSeq(stream.output, stream.delivered + 1,
                              stream.delivered + size),
                       filterThinkTags(SubSeq(stream.output, stream.delivered + 1,
                                              stream.delivered + size),
                                       stream.insideThinkBlock))
  /\ UNCHANGED << sessions, sessionStates, sessionModes, sessionFallbackState, now,
                  clients, inflight, response >>

\* The Cerebras stream throws, before, between or after its chunks: the
\* provider_switch event is sent and streamWithAlgion is called, with the
\* locals of the request as the failed stream left them.
StreamSwitch(output) ==
  /\ stream.provider = "cerebras"
  /\ algionClient
  /\ stream' = [ stream EXCEPT
                   !.provider = "algion",
                   !.output = output,
                   !.delivered = 0,
                   !.switchedAt = Some(Len(stream.forwarded)) ]
  /\ UNCHANGED << sessions, sessionStates, sessionModes, sessionFallbackState, now,
                  clients, inflight, response >>

\* The Algion stream throws: the outer catch sends the error event and no
\* assistant message is stored.
StreamError ==
  /\ stream.provider = "algion"
  /\ stream' = [ stream EXCEPT !.provider = "failed" ]
  /\ UNCHANGED << sessions, sessionStates, sessionModes, sessionFallbackState, now,
                  clients, inflight, response >>

\* The stream has ended: the assistant message is stored with fullContent,
\* or with the stock text when fullContent is empty.
StreamEnd ==
  /\ stream.provider \in { "cerebras", "algion" }
  /\ stream.delivered = Len(stream.output)
  /\ stream' = [ stream EXCEPT
                   !.provider = "done",
                   !.stored = Some(IF stream.fullContent # << >>
                                     THEN stream.fullContent
                                     ELSE EmptyReplyContent) ]
  /\ UNCHANGED << sessions, sessionStates, sessionModes, sessionFallbackState, now,
                  clients, inflight, response >>

----------------------------------------------------------------------------
(* Browser client                                                          *)

\* The identifiers randomUUID returns to the sessions the client opens.
ClientIds == { "s1", "s2" }

\* App: useState initial values.
InitialApp ==
  [ selectedScenario |-> None, currentMode |-> None, pendingTriggerMessage |-> None ]

\* ChatPage: useState initial values for a mount with loadedSession; messages
\* is the number of messages shown, pending the request whose stream the page
\* is reading.
MountedPage(loadedSession) ==
  [ sessionId |-> IF loadedSession = None THEN None ELSE Some(loadedSession[1].id),
    messages |-> IF loadedSession = None THEN 0 ELSE loadedSession[1].messages,
    isLoading |-> FALSE,
    pending |-> None ]

\* The trigger messages of the mode buttons of the sidebar.
\*   'Расскажи про МПТ — какие основные принципы и структура сессии?'
\*   'Хочу попрактиковаться в роли терапевта, а ты будешь клиентом.'
\*   'Режим супервизии. Хочу разобрать сессию и получить рекомендации.'
TriggerMessage(mode) ==
  CASE mode = "educator" ->
         << "Rasskazhi", "pro", "MPT", "--", "kakie", "osnovnye", "principy", "i",
            "struktura", "sessii", "?" >>
    [] mode = "practice_client" ->
         << "Hochu", "popraktikovatsya", "v", "roli", "terapevta", ",", "a", "ty",
            "budesh", "klientom", "." >>
    [] mode = "supervisor" ->
         << "Rezhim", "supervizii", ".", "Hochu", "razobrat", "sessiyu", "i",
            "poluchit", "rekomendacii", "." >>

ClientModes == { "educator", "practice_client", "supervisor" }

\* The greeting ChatPage sends by itself when it mounts with a scenario.
GreetingMessage ==
  << "Zdravstvuj", ",", "ya", "hotel", "by", "porabotat", "s", "temoj", "scenarij" >>

MAX_SESSIONS == 20

\* getSavedSessions without the sort: the array as it is stored.
getSavedSessions_Unsorted(store) == store

\* session-storage getSavedSessions: the stored array sorted by updatedAt,
\* latest first.
getSavedSessions(store) == SortSeq(store, LAMBDA a, b : a.updatedAt > b.updatedAt)

\* The stored sessions with updatedAt and createdAt replaced by their ranks
\* among them: the instants are kept in order, their distances are not.
Ranked(store) ==
  [ i \in 1..Len(store) |->
      [ store[i] EXCEPT
          !.updatedAt =
            Cardinality({ j \in 1..Len(store) : store[j].updatedAt <= store[i].updatedAt }),
          !.createdAt =
            Cardinality({ j \in 1..Len(store) : store[j].createdAt <= store[i].createdAt }) ] ]

\* saveSession working on the array as stored, without the sort.
saveSession_StoredOrder(store, session) ==
  IF session.id = None \/ session.messages = 0 THEN store
  ELSE LET existing == SelectSeq(store, LAMBDA s : s.id = session.id[1])
           savedSession ==
             [ id |-> session.id[1],
               messages |-> session.messages,
               mode |-> IF session.mode # None THEN session.mode
                        ELSE IF existing # << >> THEN existing[1].mode
                        ELSE None,
               createdAt |-> IF existing # << >> THEN existing[1].createdAt
                             ELSE Len(store) + 1,
               updatedAt |-> Len(store) + 1 ]
           sorted == store
           written ==
             IF existing # << >>
               THEN [ i \in 1..Len(sorted) |->
                        IF sorted[i].id = session.id[1]
                          THEN savedSession
                          ELSE sorted[i] ]
               ELSE << savedSession >> \o sorted
       IN  Ranked(SubSeq(written, 1, Min({ Len(written), MAX_SESSIONS })))

\* session-storage saveSession: the session saved now replaces its earlier
\* copy where that stands in the sorted list, keeping its createdAt, or is
\* put in front; updatedAt is later than every stored one; the list is cut
\* to MAX_SESSIONS entries.
saveSession(store, session) ==
  IF session.id = None \/ session.messages = 0 THEN store
  ELSE LET existing == SelectSeq(store, LAMBDA s : s.id = session.id[1])
           savedSession ==
             [ id |-> session.id[1],
               messages |-> session.messages,
               mode |-> IF session.mode # None THEN session.mode
                        ELSE IF existing # << >> THEN existing[1].mode
                        ELSE None,
               createdAt |-> IF existing # << >> THEN existing[1].createdAt
                             ELSE Len(store) + 1,
               updatedAt |-> Len(store) + 1 ]
           sorted == getSavedSessions(store)
           written ==
             IF existing # << >>
               THEN [ i \in 1..Len(sorted) |->
                        IF sorted[i].id = session.id[1]
                          THEN savedSession
                          ELSE sorted[i] ]
               ELSE << savedSession >> \o sorted
       IN  Ranked(SubSeq(written, 1, Min({ Len(written), MAX_SESSIONS })))

\* session-storage deleteSession: the sorted list without the session id.
deleteSession(store, id) ==
  Ranked(SelectSeq(getSavedSessions(store), LAMBDA s : s.id # id))

\* session-storage clearAllSessions: the storage key is removed.
clearAllSessions == << >>

\* session-storage clearSessionsByMode: the sorted list without the sessions
\* whose mode is mode; None stands for null.
clearSessionsByMode(store, mode) ==
  Ranked(SelectSeq(getSavedSessions(store), LAMBDA s : s.mode # mode))

\* session-storage getSessionByMode: the first session tagged with mode in
\* the list getSavedSessions returns.
getSessionByMode(mode) ==
  LET found == SelectSeq(getSavedSessions(savedSessions), LAMBDA s : s.mode = Some(mode))
  IN  IF found = << >> THEN None ELSE Some(found[1])

\* ChatPage.handleSendMessage from the page `from`: the user message is
\* shown, the request sent with the page's session id, the meta event read
\* (setSessionId) and the session saved by the effect that follows.
handleSendMessage(from, content, uuid) ==
  /\ ChatRequest(content, from.sessionId, uuid)
  /\ LET started == inflight' \ inflight
         shown == from.messages + 1 + (IF started = {} THEN 1 ELSE 0)
     IN  /\ page' = [ sessionId |-> response'.sid,
                      messages |-> shown,
                      isLoading |-> started # {},
                      pending |-> IF started = {} THEN None
                                  ELSE Some(CHOOSE r \in started : TRUE) ]
         /\ savedSessions' = saveSession(savedSessions,
                                         [ id |-> response'.sid,
                                           messages |-> shown,
                                           mode |-> app'.currentMode ])

\* ChatInput.handleSubmit: nothing is sent while the page is loading.
ChatInputSubmit(message, uuid) ==
  /\ message # << >>
  /\ ~page.isLoading
  /\ app' = app
  /\ handleSendMessage(page, message, uuid)

\* The end of the stream of request r reaches the page that sent it: the
\* assistant message is shown and saved, isLoading is reset. A page that
\* was unmounted in the meantime shows nothing.
StreamEnded(r) ==
  /\ app' = app
  /\ IF page.pending = Some(r)
       THEN /\ page' = [ page EXCEPT !.messages = @ + 1,
                                     !.isLoading = FALSE,
                                     !.pending = None ]
            /\ savedSessions' = saveSession(savedSessions,
                                            [ id |-> page.sessionId,
                                              messages |-> page.messages + 1,
                                              mode |-> app.currentMode ])
       ELSE UNCHANGED << page, savedSessions >>

ClientDone(r) == ChatDone(r) /\ StreamEnded(r)

ClientError(r) == ChatError(r) /\ StreamEnded(r)

\* Sidebar, one of the five saved sessions listed is clicked:
\* App.handleLoadSession remounts ChatPage with the saved session.
LoadSession(id) ==
  /\ id \in DOMAIN savedSessions
  /\ id <= 5
  /\ app' = [ app EXCEPT !.selectedScenario = None,
                         !.currentMode = getSavedSessions(savedSessions)[id].mode ]
  /\ page' = MountedPage(Some(getSavedSessions(savedSessions)[id]))
  /\ UNCHANGED << server, savedSessions >>

\* Sidebar, "free request": handleSelectScenario(null), handleNewSession.
FreeRequest ==
  /\ app' = [ app EXCEPT !.selectedScenario = None, !.currentMode = None ]
  /\ page' = MountedPage(None)
  /\ UNCHANGED << server, savedSessions >>

\* Chat header, "new session": ChatPage.handleNewSession and
\* App.handleNewSession remount ChatPage; with a scenario still selected the
\* new page sends the greeting.
HeaderNewSession(uuid) ==
  /\ app' = app
  /\ IF app.selectedScenario = None
       THEN /\ page' = MountedPage(None)
            /\ UNCHANGED << server, savedSessions >>
       ELSE handleSendMessage(MountedPage(None), GreetingMessage, uuid)

\* Sidebar, a scenario card: handleSelectScenario(scenario), handleNewSession;
\* the page mounts empty and sends the greeting.
SelectScenario(uuid) ==
  /\ app' = [ app EXCEPT !.selectedScenario = Some("scenarij"), !.currentMode = None ]
  /\ handleSendMessage(MountedPage(None), GreetingMessage, uuid)

\* Sidebar, a mode button: handleSelectScenario(null), then
\* App.handleModeSelect continues a saved session of the mode or opens an
\* empty page that sends the trigger message.
ModeSelect(mode, uuid) ==
  /\ app' = [ app EXCEPT !.selectedScenario = None, !.currentMode = Some(mode) ]
  /\ IF getSessionByMode(mode) # None
       THEN /\ page' = MountedPage(getSessionByMode(mode))
            /\ UNCHANGED << server, savedSessions >>
       ELSE handleSendMessage(MountedPage(None), TriggerMessage(mode), uuid)

----------------------------------------------------------------------------
(* Specification                                                           *)

\* Bounds of the model.
\* The first MaxVaried turns of a session are arbitrary (any utterance, and
\* the generation call may fail); later turns send Filler and are answered.
MaxVaried == 2
\* A session receives at most MaxTurns utterances.
MaxTurns == 35

\* The utterance sent once the arbitrary ones are used up: no keyword, no fact.
Filler == << "privet" >>

Utterances ==
  { Filler,
    << "Otkladyvayu", "diplom" >>,
    << "boyus", "chto", "otkladyvayu" >>,
    << "8", "iz", "10" >> }

\* The session ids a client can send: none, a known one, or a stale one.
RequestIds == { None } \cup { Some(id) : id \in SessionIds \cup {"stale"} }

\* Bodies that fail chatRequestSchema: no string message, or an empty one.
InvalidBodies ==
  { [message |-> msg, sessionId |-> sessionId] :
      msg \in { None, Some(<< >>) }, sessionId \in RequestIds }

Menu(sessionId) ==
  IF sessionId = None \/ sessionId[1] \notin DOMAIN sessions
    THEN IF MaxVaried > 0 THEN Utterances ELSE {Filler}
    ELSE IF UserMessageCount(sessionId[1]) < MaxVaried THEN Utterances ELSE {Filler}

\* Turns of one session are serialised by the caller.
CanSend(sessionId) ==
  /\ inflight = {}
  /\ (sessionId # None /\ sessionId[1] \in DOMAIN sessions) =>
       UserMessageCount(sessionId[1]) < MaxTurns

Init ==
  /\ sessions = << >>
  /\ sessionStates = << >>
  /\ sessionModes = << >>
  /\ sessionFallbackState = << >>
  /\ now = 0
  /\ clients = BothClients
  /\ stream = IdleStream
  /\ inflight = {}
  /\ response = [kind |-> "none", sid |-> None, providers |-> << >>]
  /\ app = InitialApp
  /\ page = MountedPage(None)
  /\ savedSessions = << >>

Next ==
  \/ \E sessionId \in RequestIds : \E message \in Menu(sessionId) : \E uuid \in SessionIds :
       CanSend(sessionId) /\ ChatRequest(message, sessionId, uuid) /\ UNCHANGED client
  \/ \E body \in InvalidBodies : ChatInvalid(body) /\ UNCHANGED client
  \/ \E r \in inflight : ChatDone(r) /\ UNCHANGED client
  \/ \E r \in inflight : UserMessageCount(r.sid) <= MaxVaried /\ ChatError(r) /\ UNCHANGED client
  \/ \E uuid \in SessionIds : NewSession(uuid) /\ UNCHANGED client

Spec == Init /\ [][Next]_vars

\* A short dialogue of one session whose utterances introduce names, say
\* "I don't know", trigger bot modes and leave them; only the generation
\* call of the first utterance may fail.
MaxDialogTurns == 3

DialogUtterances ==
  { Filler,
    << "menya", "zovut", "Anna" >>,
    << "menya", "zovut", "Oleg" >>,
    << "Ne", "znayu" >>,
    << "ne", "znayu", "kak", "pravilno" >>,
    << "bud", "klientom" >>,
    << "superviziya" >>,
    << "rezhim", "terapevta" >> }

DialogCanSend(sessionId) ==
  /\ inflight = {}
  /\ (sessionId # None /\ sessionId[1] \in DOMAIN sessions) =>
       UserMessageCount(sessionId[1]) < MaxDialogTurns

NextDialog ==
  \/ \E sessionId \in { None } \cup { Some(id) : id \in SessionIds } :
       \E message \in DialogUtterances : \E uuid \in SessionIds :
         DialogCanSend(sessionId) /\ ChatRequest(message, sessionId, uuid) /\ UNCHANGED client
  \/ \E body \in InvalidBodies : ChatInvalid(body) /\ UNCHANGED client
  \/ \E r \in inflight : ChatDone(r) /\ UNCHANGED client
  \/ \E r \in inflight : UserMessageCount(r.sid) = 1 /\ ChatError(r) /\ UNCHANGED client
  \/ \E uuid \in SessionIds : NewSession(uuid) /\ UNCHANGED client

SpecDialog == Init /\ [][NextDialog]_vars

\* Two sessions whose turns interleave freely; the turns of one session are
\* serialised. The generation call of a first utterance may fail on both
\* providers, which sets the fallback state; every other call is served by
\* the first provider tried.
MaxPairTurns == 2

PairIds == { "s1", "s2" }

\* The second utterance says "I don't know", rates the request and asks for
\* supervision.
PairUtterances == { Filler, << "Ne", "znayu", "8", "iz", "10", "superviziya" >> }

PairCanSend(sessionId) ==
  (sessionId # None /\ sessionId[1] \in DOMAIN sessions) =>
    /\ \A r \in inflight : r.sid # sessionId[1]
    /\ UserMessageCount(sessionId[1]) < MaxPairTurns

NextPair ==
  \/ \E sessionId \in { None } \cup { Some(id) : id \in PairIds } :
       \E message \in PairUtterances : \E uuid \in PairIds :
         PairCanSend(sessionId) /\ ChatRequest(message, sessionId, uuid) /\ UNCHANGED client
  \/ \E r \in inflight : ChatDone(r) /\ UNCHANGED client
  \/ \E r \in inflight : UserMessageCount(r.sid) = 1 /\ ChatError(r) /\ UNCHANGED client
  \/ \E uuid \in PairIds : NewSession(uuid) /\ UNCHANGED client

SpecPair == Init /\ [][NextPair]_vars

\* One session whose utterances carry mode triggers and exit commands; its
\* turns are serialised and every generation call is answered.
MaxModeTurns == 3

ModeUtterances ==
  { Filler,
    << "bud", "klientom" >>,
    << "superviziya" >>,
    << "kak", "pravilno" >>,
    << "rezhim", "terapevta" >>,
    << "superviziya", "rezhim", "terapevta" >> }

NextModes ==
  \/ \E message \in ModeUtterances : \E sessionId \in { None, Some("s1") } :
       /\ inflight = {}
       /\ "s1" \in DOMAIN sessions => UserMessageCount("s1") < MaxModeTurns
       /\ ChatRequest(message, sessionId, "s1")
       /\ UNCHANGED client
  \/ \E r \in inflight : ChatDone(r) /\ UNCHANGED client
  \/ NewSession("s1") /\ UNCHANGED client

SpecModes == Init /\ [][NextModes]_vars

\* One session whose generation calls may fail on either provider while time
\* passes; its turns are serialised.
MaxFallbackTurns == 4
MaxNow == 7

NextFallback ==
  \/ \E sessionId \in { None, Some("s1") } :
       /\ inflight = {}
       /\ "s1" \in DOMAIN sessions => UserMessageCount("s1") < MaxFallbackTurns
       /\ ChatRequest(Filler, sessionId, "s1")
       /\ UNCHANGED client
  \/ \E r \in inflight : ChatDone(r) /\ UNCHANGED client
  \/ \E r \in inflight : ChatFallback(r) /\ UNCHANGED client
  \/ \E r \in inflight : ChatError(r) /\ UNCHANGED client
  \/ \E minutes \in { 1, 5 } :
       /\ now + minutes <= MaxNow
       /\ Tick(minutes)
       /\ UNCHANGED client

SpecFallback == Init /\ [][NextFallback]_vars

\* The same session on a server started with any combination of the two
\* provider keys.
InitProviders ==
  /\ sessions = << >>
  /\ sessionStates = << >>
  /\ sessionModes = << >>
  /\ sessionFallbackState = << >>
  /\ now = 0
  /\ clients \in [cerebras : BOOLEAN, algion : BOOLEAN]
  /\ stream = IdleStream
  /\ inflight = {}
  /\ response = [kind |-> "none", sid |-> None, providers |-> << >>]
  /\ app = InitialApp
  /\ page = MountedPage(None)
  /\ savedSessions = << >>

SpecProviders == InitProviders /\ [][NextFallback]_vars

\* One session created by /api/chat whose utterances rate the importance of
\* the request in the forms the patterns know; the first MaxRatingVaried
\* utterances are any of them, the later ones a neutral utterance or a plain
\* rating; its turns are serialised and answered.
MaxRatingVaried == 2
MaxRatingTurns == 4

RatingUtterances ==
  { Filler,
    << "8", "iz", "10" >>,
    << "na", "7" >>,
    << "5" >>,
    << "na", "11" >>,
    << "3", "iz", "10", "na", "7" >>,
    << "12", "iz", "10", "na", "7" >> }

RatingMenu ==
  IF "s1" \notin DOMAIN sessions \/ UserMessageCount("s1") < MaxRatingVaried
    THEN RatingUtterances
    ELSE { Filler, << "8", "iz", "10" >> }

NextRating ==
  \/ \E message \in RatingMenu :
       /\ inflight = {}
       /\ "s1" \in DOMAIN sessions => UserMessageCount("s1") < MaxRatingTurns
       /\ ChatRequest(message,
                      IF "s1" \in DOMAIN sessions THEN Some("s1") ELSE None, "s1")
       /\ UNCHANGED client
  \/ \E r \in inflight : ChatDone(r) /\ UNCHANGED client

SpecRating == Init /\ [][NextRating]_vars

\* One session created by /api/chat whose first utterance names the request
\* with keywords of one category, of several categories or of none; its turns
\* are serialised and answered.
MaxTypeTurns == 2

TypeUtterances ==
  { Filler,
    << "strah" >>,
    << "Strah", "i", "razvod" >>,
    << "otkladyvayu", "dela" >>,
    << "otkladyvayu", "i", "boyus" >>,
    << "muzh", "ustal" >>,
    << "samoocenka" >>,
    << "Ustal" >>,
    << "net", "motivacii" >>,
    << "net", "smysla" >>,
    << "razryvayus" >>,
    << "sabotiruyu" >>,
    << "detstvo" >>,
    << "krizis" >>,
    << "bolit", "golova" >>,
    << "telo", "i", "krizis" >> }

NextTypes ==
  \/ \E message \in TypeUtterances :
       /\ inflight = {}
       /\ "s1" \in DOMAIN sessions => UserMessageCount("s1") < MaxTypeTurns
       /\ ChatRequest(message,
                      IF "s1" \in DOMAIN sessions THEN Some("s1") ELSE None, "s1")
       /\ UNCHANGED client
  \/ \E r \in inflight : ChatDone(r) /\ UNCHANGED client

SpecTypes == Init /\ [][NextTypes]_vars

\* One session created by /api/chat whose utterances carry projection
\* phrases, in lower case and capitalised, alone and next to a mode trigger,
\* or none; its turns are serialised and answered.
MaxAuthorshipTurns == 3

AuthorshipUtterances ==
  { Filler,
    << "menya", "besit", "shum" >>,
    << "Menya", "ne", "ponimayut" >>,
    << "on", "menya", "besit" >>,
    << "ya", "ne", "mogu", "nachat" >>,
    << "superviziya" >>,
    << "superviziya", "menya", "zastavili" >> }

NextAuthorship ==
  \/ \E message \in AuthorshipUtterances :
       /\ inflight = {}
       /\ "s1" \in DOMAIN sessions => UserMessageCount("s1") < MaxAuthorshipTurns
       /\ ChatRequest(message,
                      IF "s1" \in DOMAIN sessions THEN Some("s1") ELSE None, "s1")
       /\ UNCHANGED client
  \/ \E r \in inflight : ChatDone(r) /\ UNCHANGED client

SpecAuthorship == Init /\ [][NextAuthorship]_vars

\* One session created by /api/chat whose first utterance is one of the
\* projection phrases the authorship patterns are written for; later
\* utterances are a neutral one or a phrase two patterns match; its turns are
\* serialised and answered.
MaxPhraseTurns == 2

PhraseUtterances ==
  UNION { { AUTHORSHIP_TRANSFORMATIONS[t].pattern[a] :
              a \in 1..Len(AUTHORSHIP_TRANSFORMATIONS[t].pattern) } :
          t \in 1..Len(AUTHORSHIP_TRANSFORMATIONS) }

NextPhrases ==
  \/ \E message \in PhraseUtterances :
       /\ "s1" \notin DOMAIN sessions
       /\ ChatRequest(message, None, "s1")
       /\ UNCHANGED client
  \/ \E message \in { Filler, << "on", "menya", "besit" >> } :
       /\ inflight = {}
       /\ "s1" \in DOMAIN sessions
       /\ UserMessageCount("s1") < MaxPhraseTurns
       /\ ChatRequest(message, Some("s1"), "s1")
       /\ UNCHANGED client
  \/ \E r \in inflight : ChatDone(r) /\ UNCHANGED client

SpecPhrases == Init /\ [][NextPhrases]_vars

\* One session created by /api/chat that receives further requests while
\* earlier ones are still waiting for their generation call; the calls
\* complete in any order.
MaxConcurrentTurns == 3

ConcurrentUtterances == { Filler, << "8", "iz", "10" >>, << "Ne", "znayu" >> }

NextConcurrent ==
  \/ \E message \in ConcurrentUtterances :
       /\ "s1" \in DOMAIN sessions => UserMessageCount("s1") < MaxConcurrentTurns
       /\ ChatRequest(message,
                      IF "s1" \in DOMAIN sessions THEN Some("s1") ELSE None, "s1")
       /\ UNCHANGED client
  \/ \E r \in inflight : ChatDone(r) /\ UNCHANGED client

SpecConcurrent == Init /\ [][NextConcurrent]_vars

\* The reply of one request, streamed by Cerebras in chunks of any size up
\* to MaxChunkLen; the stream may break at any point, and the reply is then
\* streamed by Algion, which may break too.
MaxChunkLen == 8

\* What a provider produces: plain text, text after, around and without a
\* think span.
ProviderOutputs ==
  { << "a", "b" >>,
    OpenThink \o << "x" >> \o CloseThink \o << "a", "b" >>,
    << "a" >> \o OpenThink \o << "x" >> \o CloseThink \o << "b" >>,
    OpenThink \o << "x" >> \o CloseThink }

InitStream ==
  /\ sessions = << >>
  /\ sessionStates = << >>
  /\ sessionModes = << >>
  /\ sessionFallbackState = << >>
  /\ now = 0
  /\ clients = BothClients
  /\ \E output \in ProviderOutputs :
       stream = [ IdleStream EXCEPT !.provider = "cerebras", !.output = output ]
  /\ inflight = {}
  /\ response = [kind |-> "none", sid |-> None, providers |-> << >>]
  /\ app = InitialApp
  /\ page = MountedPage(None)
  /\ savedSessions = << >>

NextStream ==
  \/ \E size \in 1..MaxChunkLen : StreamChunk(size) /\ UNCHANGED client
  \/ \E output \in ProviderOutputs : StreamSwitch(output) /\ UNCHANGED client
  \/ StreamError /\ UNCHANGED client
  \/ StreamEnd /\ UNCHANGED client

SpecStream == InitStream /\ [][NextStream]_vars

\* The stored list alone, under sequences of the calls that write it. New
\* sessions take the first unused id; only the session of ResavedIds is saved
\* again, only that of TaggedIds carries a mode and only that of DeletedIds
\* is deleted by id. The clock advances with every call that rewrites or
\* removes stored sessions, and a run has at most MaxStoreEdits of them.
MaxStoreEdits == 1

StoreUuids ==
  << "u01", "u02", "u03", "u04", "u05", "u06", "u07", "u08", "u09", "u10", "u11",
     "u12", "u13", "u14", "u15", "u16", "u17", "u18", "u19", "u20", "u21" >>

ResavedIds == { "u01" }
TaggedIds == { "u02" }
DeletedIds == { "u03" }

StoredIds(store) == { store[i].id : i \in 1..Len(store) }

\* The next session id: the first one no stored session has.
FreshIds(store) ==
  LET unused == { i \in 1..Len(StoreUuids) : StoreUuids[i] \notin StoredIds(store) }
  IN  IF unused = {} THEN {} ELSE { StoreUuids[Min(unused)] }

\* The sessions saveSession is called with for a session not stored yet:
\* with its first message, and as the save effect passes it before a
\* session id is known or a message exists.
NewInputs(store) ==
  { [ id |-> Some(id), messages |-> 1, mode |-> mode ] :
      id \in FreshIds(store),
      mode \in { None } \cup { Some("educator") : x \in FreshIds(store) \cap TaggedIds } }
    \cup { [ id |-> None, messages |-> 1, mode |-> None ] }
    \cup { [ id |-> Some(id), messages |-> 0, mode |-> None ] : id \in FreshIds(store) }

\* A stored session saved again with one more exchange.
AgainInputs(store) ==
  { [ id |-> Some(id), messages |-> 2, mode |-> None ] :
      id \in ResavedIds \cap StoredIds(store) }

NextStore ==
  \/ \E session \in NewInputs(savedSessions) :
       /\ savedSessions' = saveSession(savedSessions, session)
       /\ UNCHANGED << server, app, page >>
  \/ \E session \in AgainInputs(savedSessions) :
       /\ now < MaxStoreEdits
       /\ savedSessions' = saveSession(savedSessions, session)
       /\ now' = now + 1
       /\ UNCHANGED << sessions, sessionStates, sessionModes, sessionFallbackState,
                       clients, stream, inflight, response, app, page >>
  \/ \E id \in DeletedIds :
       /\ now < MaxStoreEdits
       /\ savedSessions' = deleteSession(savedSessions, id)
       /\ now' = now + 1
       /\ UNCHANGED << sessions, sessionStates, sessionModes, sessionFallbackState,
                       clients, stream, inflight, response, app, page >>
  \/ \E mode \in { None, Some("educator") } :
       /\ now < MaxStoreEdits
       /\ savedSessions' = clearSessionsByMode(savedSessions, mode)
       /\ now' = now + 1
       /\ UNCHANGED << sessions, sessionStates, sessionModes, sessionFallbackState,
                       clients, stream, inflight, response, app, page >>
  \/ /\ now < MaxStoreEdits
     /\ savedSessions' = clearAllSessions
     /\ now' = now + 1
     /\ UNCHANGED << sessions, sessionStates, sessionModes, sessionFallbackState,
                     clients, stream, inflight, response, app, page >>

SpecStore == Init /\ [][NextStore]_vars

\* One session about to finish, with a TherapyContext drawn from every
\* combination of the fields selectHomework reads; its turns are serialised
\* and answered, and an utterance may switch the session to supervisor mode.
MaxHomeworkTurns == 4

HomeworkContexts ==
  { [ createInitialSessionState.context EXCEPT
        !.originalRequest = Some(Filler),
        !.metaphor = metaphor,
        !.metaphorData.image = image,
        !.bodyLocation = bodyLocation,
        !.bodyworkData.location = location,
        !.newActions = newActions,
        !.firstStep = firstStep ] :
      metaphor \in { None, Some("ogon") },
      image \in { None, Some("plamya") },
      bodyLocation \in { None, Some("grud") },
      location \in { None, Some("zhivot") },
      newActions \in { << >>, << "zvonok" >> },
      firstStep \in { None, Some("pismo") } }

\* The session has just entered plan_actions.
InitHomework ==
  /\ \E context \in HomeworkContexts :
       sessionStates =
         [ sid \in { "s1" } |->
             [ createInitialSessionState EXCEPT
                 !.currentStage = "plan_actions",
                 !.stageHistory = SubSeq(MPT_STAGE_ORDER, 1,
                                         IndexOf(MPT_STAGE_ORDER, "plan_actions")),
                 !.context = context,
                 !.requestType = Some("general"),
                 !.sessionStarted = TRUE ] ]
  /\ sessions = [ sid \in { "s1" } |->
                    [ messages |-> << >>, phase |-> getPhaseFromStage("plan_actions") ] ]
  /\ sessionModes = << >>
  /\ sessionFallbackState = << >>
  /\ now = 0
  /\ clients = BothClients
  /\ stream = IdleStream
  /\ inflight = {}
  /\ response = [kind |-> "none", sid |-> None, providers |-> << >>]
  /\ app = InitialApp
  /\ page = MountedPage(None)
  /\ savedSessions = << >>

NextHomework ==
  \/ \E message \in { Filler, << "superviziya" >> } :
       /\ inflight = {}
       /\ UserMessageCount("s1") < MaxHomeworkTurns
       /\ ChatRequest(message, Some("s1"), "s1")
       /\ UNCHANGED client
  \/ \E r \in inflight : ChatDone(r) /\ UNCHANGED client

SpecHomework == InitHomework /\ [][NextHomework]_vars

\* The browser client drives the server: every request is sent by a page, only
\* the generation call of a first utterance may fail,
\* and a session receives at most MaxClientTurns utterances.
MaxClientTurns == 2

ClientCanSend ==
  (page.sessionId # None /\ page.sessionId[1] \in DOMAIN sessions) =>
    UserMessageCount(page.sessionId[1]) < MaxClientTurns

NextClient ==
  \/ \E uuid \in ClientIds : ClientCanSend /\ ChatInputSubmit(Filler, uuid)
  \/ \E r \in inflight : ClientDone(r)
  \/ \E r \in inflight : UserMessageCount(r.sid) = 1 /\ ClientError(r)
  \/ \E id \in DOMAIN savedSessions : LoadSession(id)
  \/ FreeRequest
  \/ \E uuid \in ClientIds : HeaderNewSession(uuid)
  \/ \E uuid \in ClientIds : SelectScenario(uuid)
  \/ \E uuid \in ClientIds : ModeSelect("practice_client", uuid)

SpecClient == Init /\ [][NextClient]_vars

\* The mode buttons of the sidebar: sessions are opened and continued from
\* two of the mode buttons, the history list and the header, every
\* generation call is answered, and a session receives at most
\* MaxSelectTurns utterances.
MaxSelectTurns == 2

SelectModes == { "educator", "supervisor" }

SelectCanSend ==
  (page.sessionId # None /\ page.sessionId[1] \in DOMAIN sessions) =>
    UserMessageCount(page.sessionId[1]) < MaxSelectTurns

NextSelect ==
  \/ \E uuid \in ClientIds : SelectCanSend /\ ChatInputSubmit(Filler, uuid)
  \/ \E r \in inflight : ClientDone(r)
  \/ \E id \in DOMAIN savedSessions : LoadSession(id)
  \/ \E uuid \in ClientIds : HeaderNewSession(uuid)
  \/ \E mode \in SelectModes : \E uuid \in ClientIds : ModeSelect(mode, uuid)

SpecSelect == Init /\ [][NextSelect]_vars

----------------------------------------------------------------------------
(* Properties of the stage machine                                         *)

\* The SessionState a step starts from: the stored one, or the state a
\* session is created with when the step creates it.
StateBefore(sid) ==
  IF sid \in DOMAIN sessionStates THEN sessionStates[sid] ELSE createInitialSessionState

\* The step is the state update of a /api/chat turn of session sid.
IsTurn(sid) == \E r \in inflight' \ inflight : r.sid = sid

StagePos(stage) == IndexOf(MPT_STAGE_ORDER, stage)

\* The stages before position pos of MPT_STAGE_ORDER (0-based).
StagePrefix(pos) == SubSeq(MPT_STAGE_ORDER, 1, pos)

FirstUtterance(sid) ==
  sessions[sid].messages[Min({ i \in 1..Len(sessions[sid].messages) :
                                 sessions[sid].messages[i].role = "user" })].content

\* C1: from one step to the next the position of currentStage in
\* MPT_STAGE_ORDER never decreases and grows by at most one.
C1_StageMonotone ==
  [][ \A sid \in DOMAIN sessionStates' :
        /\ StagePos(StateBefore(sid).currentStage)
             <= StagePos(sessionStates'[sid].currentStage)
        /\ StagePos(sessionStates'[sid].currentStage)
             <= StagePos(StateBefore(sid).currentStage) + 1 ]_vars

\* A session has walked the whole order, one stage at a time, up to finish.
C1_Witness ==
  \E sid \in DOMAIN sessionStates :
    /\ sessionStates[sid].currentStage = "finish"
    /\ Len(sessionStates[sid].stageHistory) = Len(MPT_STAGE_ORDER) - 1

\* C2: a step that changes currentStage sets stageResponseCount to 0, appends
\* the stage just left to stageHistory and moves to the successor stage, and
\* after every step stageHistory is the prefix of MPT_STAGE_ORDER that
\* precedes currentStage.
C2_HistoryIsPrefix ==
  [][ \A sid \in DOMAIN sessionStates' :
        LET before == StateBefore(sid)
            after == sessionStates'[sid]
        IN  /\ after.currentStage # before.currentStage =>
                 /\ after.stageResponseCount = 0
                 /\ after.stageHistory = Append(before.stageHistory, before.currentStage)
                 /\ StagePos(after.currentStage) = StagePos(before.currentStage) + 1
            /\ after.stageHistory = StagePrefix(StagePos(after.currentStage)) ]_vars

\* A session that has just advanced for the third time.
C2_Witness ==
  \E sid \in DOMAIN sessionStates :
    /\ sessionStates[sid].currentStage = "explore_strategy"
    /\ sessionStates[sid].stageResponseCount = 0
    /\ sessionStates[sid].stageHistory =
         << "start_session", "collect_context", "clarify_request" >>

\* C3: on a turn that leaves a stage, or that sets sessionComplete, the
\* incremented stageResponseCount is at least the stage's minResponses.
C3_MinResponsesGate ==
  [][ \A sid \in DOMAIN sessionStates' :
        LET before == StateBefore(sid)
            after == sessionStates'[sid]
        IN  (IsTurn(sid) /\ (\/ after.currentStage # before.currentStage
                             \/ (after.sessionComplete /\ ~before.sessionComplete)))
              => before.stageResponseCount + 1
                   >= MPT_STAGE_CONFIG[before.currentStage].minResponses ]_vars

\* The target fact of collect_context is known, the count is below the
\* minimum, and the stage has been kept.
C3_Witness ==
  \E sid \in DOMAIN sessionStates :
    /\ sessionStates[sid].currentStage = "collect_context"
    /\ sessionStates[sid].importanceRating # None
    /\ sessionStates[sid].stageResponseCount = 1

\* The ceilings of C4, per stage.
StageCeiling ==
  [ collect_context  |-> 3,
    clarify_request  |-> 4,
    explore_strategy |-> 3,
    find_need        |-> 4,
    bodywork         |-> 4,
    metaphor         |-> 3,
    meta_position    |-> 3,
    integration      |-> 3,
    plan_actions     |-> 3 ]

\* C4: a turn at a stage from collect_context to plan_actions on which the
\* count reaches the stage's ceiling leaves the stage, and after every step
\* the count at such a stage is below its ceiling.
C4_CeilingAdvances ==
  [][ \A sid \in DOMAIN sessionStates' :
        LET before == StateBefore(sid)
            after == sessionStates'[sid]
        IN  /\ (/\ IsTurn(sid)
                /\ before.currentStage \in DOMAIN StageCeiling
                /\ before.stageResponseCount + 1 >= StageCeiling[before.currentStage])
                 => StagePos(after.currentStage) = StagePos(before.currentStage) + 1
            /\ after.currentStage \in DOMAIN StageCeiling
                 => after.stageResponseCount < StageCeiling[after.currentStage] ]_vars

\* clarify_request was left although its target fact was never populated.
C4_Witness ==
  \E sid \in DOMAIN sessionStates :
    /\ sessionStates[sid].currentStage = "explore_strategy"
    /\ sessionStates[sid].context.clarifiedRequest = None

\* C5: once a session has processed its first utterance, its request text
\* is recorded and it has left start_session, however it was created.
C5_FirstUtteranceAdvances ==
  \A sid \in DOMAIN sessionStates :
    UserMessageCount(sid) >= 1 =>
      /\ sessionStates[sid].context.originalRequest # None
      /\ sessionStates[sid].currentStage # "start_session"

\* The number of turns C6 allows a session: one at start_session, the
\* ceilings of the nine middle stages, two at finish.
TurnsToComplete == 1 + (3 + 4 + 3 + 4 + 4 + 3 + 3 + 3 + 3) + 2

\* C6: a session that has received TurnsToComplete turns is complete.
C6_CompletesWithinBound ==
  \A sid \in DOMAIN sessionStates :
    UserMessageCount(sid) >= TurnsToComplete => sessionStates[sid].sessionComplete

\* C7: at finish the session is complete as soon as stageResponseCount has
\* reached the minResponses of finish.
C7_FinishCompletesAtMinimum ==
  \A sid \in DOMAIN sessionStates :
    (/\ sessionStates[sid].currentStage = "finish"
     /\ sessionStates[sid].stageResponseCount >= MPT_STAGE_CONFIG["finish"].minResponses)
      => sessionStates[sid].sessionComplete

\* C8: a complete session is at finish, and a step from a complete session
\* changes neither currentStage nor stageHistory nor sessionComplete.
C8_CompleteIsTerminal ==
  [][ \A sid \in DOMAIN sessionStates' :
        LET before == StateBefore(sid)
            after == sessionStates'[sid]
        IN  /\ after.sessionComplete => after.currentStage = "finish"
            /\ before.sessionComplete =>
                 /\ after.sessionComplete
                 /\ after.currentStage = before.currentStage
                 /\ after.stageHistory = before.stageHistory ]_vars

\* A complete session has processed two more utterances and answered them.
C8_Witness ==
  \E sid \in DOMAIN sessionStates :
    /\ sessionStates[sid].sessionComplete
    /\ sessionStates[sid].stageResponseCount = 4
    /\ response.kind = "done"

\* C9: a requestType that is set stays the same on every later step.
C9_RequestTypeStable ==
  [][ \A sid \in DOMAIN sessionStates :
        sessionStates[sid].requestType # None =>
          sessionStates'[sid].requestType = sessionStates[sid].requestType ]_vars

\* The pinned category differs from the category of the latest utterance.
C9_Witness ==
  \E sid \in DOMAIN sessionStates :
    /\ sessionStates[sid].requestType # None
    /\ UserMessageCount(sid) >= 2
    /\ sessionStates[sid].requestType[1]
         # detectRequestType(sessionStates[sid].lastClientResponse)

\* C10: once a session has processed its first utterance, requestType is the
\* category detectRequestType gives for that utterance.
C10_RequestTypeFromFirstUtterance ==
  \A sid \in DOMAIN sessionStates :
    UserMessageCount(sid) >= 1 =>
      sessionStates[sid].requestType = Some(detectRequestType(FirstUtterance(sid)))

\* C11 as stated: after the first turn of a session, stageResponseCount is 1
\* and requestType is the category of that first utterance.
C11_FirstTurnCountIsOne ==
  \A sid \in DOMAIN sessionStates :
    UserMessageCount(sid) = 1 =>
      /\ sessionStates[sid].stageResponseCount = 1
      /\ sessionStates[sid].requestType = Some(detectRequestType(FirstUtterance(sid)))

\* C11: after the first turn of a session created by /api/chat the turn has
\* been counted, the minimum of start_session (1) is met, and the session is
\* at collect_context with the counter reset to 0 and requestType the
\* category of the first utterance; a session created by /api/sessions/new
\* is still at start_session with the counter at 1.
C11_FirstTurnAdvances ==
  \A sid \in DOMAIN sessionStates :
    UserMessageCount(sid) = 1 =>
      IF sessionStates[sid].sessionStarted
        THEN /\ sessionStates[sid].currentStage = "collect_context"
             /\ sessionStates[sid].stageResponseCount = 0
             /\ sessionStates[sid].stageHistory = << "start_session" >>
             /\ sessionStates[sid].requestType
                  = Some(detectRequestType(FirstUtterance(sid)))
        ELSE /\ sessionStates[sid].currentStage = "start_session"
             /\ sessionStates[sid].stageResponseCount = 1

\* The first turn of a session created by /api/chat has been answered, and
\* its utterance was classified as procrastination.
C11_Witness ==
  \E sid \in DOMAIN sessionStates :
    /\ UserMessageCount(sid) = 1
    /\ sessionStates[sid].sessionStarted
    /\ sessionStates[sid].requestType = Some("procrastination")
    /\ response.kind = "done"

\* The TherapyContext fields that hold one fact of the session.
SingleShotFields ==
  { "clientName", "originalRequest", "clarifiedRequest", "currentStrategy",
    "deepNeed", "bodyLocation", "metaphor", "firstStep" }

\* C12: a single-shot TherapyContext field that is non-null keeps its value
\* on every later step; a later utterance that introduces another name does
\* not change clientName.
C12_ContextWriteOnce ==
  [][ \A sid \in DOMAIN sessionStates : \A f \in SingleShotFields :
        sessionStates[sid].context[f] # None =>
          sessionStates'[sid].context[f] = sessionStates[sid].context[f] ]_vars

\* The client was named Anna, and the utterance processed last introduces
\* the name Oleg.
C12_Witness ==
  \E sid \in DOMAIN sessionStates :
    /\ sessionStates[sid].context.clientName = Some("Anna")
    /\ sessionStates[sid].lastClientResponse = << "menya", "zovut", "Oleg" >>
    /\ extractClientName(<< UserMessage(sessionStates[sid].lastClientResponse) >>)
         = Some("Oleg")
    /\ sessionStates[sid].context.originalRequest # None

\* C13: a request whose generation call failed leaves the SessionState and
\* the stored messages of its session as they were before the request; for
\* a session none of whose requests was answered, that is the state the
\* session was created with and an empty message list.
C13_FailedTurnLeavesNoTrace ==
  \A sid \in DOMAIN sessions :
    ( /\ response.kind = "error"
      /\ response.sid = Some(sid)
      /\ \A i \in 1..Len(sessions[sid].messages) :
           sessions[sid].messages[i].role # "assistant" )
    => /\ sessions[sid].messages = << >>
       /\ sessionStates[sid].currentStage = "start_session"
       /\ sessionStates[sid].stageResponseCount = 0
       /\ sessionStates[sid].stageHistory = << >>
       /\ sessionStates[sid].clientSaysIDontKnow = FALSE
       /\ sessionStates[sid].importanceRating = None

\* C14: a /api/chat request whose message is empty or whose body fails the
\* schema is answered with the input error and changes no session, message,
\* SessionState, mode or fallback state; no empty utterance is ever stored.
C14_InvalidRequestMutatesNothing ==
  [][ /\ response'.kind = "invalid" =>
           UNCHANGED << sessions, sessionStates, sessionModes,
                        sessionFallbackState, inflight >>
      /\ \A sid \in DOMAIN sessions' : \A i \in 1..Len(sessions'[sid].messages) :
           sessions'[sid].messages[i].content # << >> ]_vars

\* An invalid request was rejected while a session with a mode and a
\* fallback state was stored.
C14_Witness ==
  /\ response.kind = "invalid"
  /\ \E sid \in DOMAIN sessions :
       /\ sid \in DOMAIN sessionModes
       /\ sid \in DOMAIN sessionFallbackState
       /\ sessionStates[sid].stageResponseCount > 0

\* C15: no two /api/chat requests of one session are in flight together.
C15_OneRequestPerSession ==
  \A r1 \in inflight : \A r2 \in inflight : r1.sid = r2.sid => r1 = r2

\* The positions of the user messages in the stored history of session sid.
UserPositions(sid) ==
  { i \in 1..Len(sessions[sid].messages) : sessions[sid].messages[i].role = "user" }

\* The utterance of the latest turn of session sid.
LastUtterance(sid) ==
  sessions[sid].messages[CHOOSE i \in UserPositions(sid) :
                           \A j \in UserPositions(sid) : j <= i].content

\* C16: after every turn clientSaysIDontKnow is true exactly when the
\* utterance of that turn contains an evasion phrase, in any letter case; it
\* tells nothing about earlier utterances.
C16_EvasionFlagIsLatest ==
  \A sid \in DOMAIN sessionStates :
    UserPositions(sid) # {} =>
      ( sessionStates[sid].clientSaysIDontKnow
          <=> \E p \in 1..Len(IDontKnowPatterns) :
                Includes(toLowerCase(LastUtterance(sid)), IDontKnowPatterns[p]) )

\* The first utterance was "Ne znayu", a later one has no evasion phrase,
\* and the flag is false again.
C16_Witness ==
  \E sid \in DOMAIN sessionStates :
    /\ Cardinality(UserPositions(sid)) >= 2
    /\ FirstUtterance(sid) = << "Ne", "znayu" >>
    /\ ~sessionStates[sid].clientSaysIDontKnow

\* The prompt carries the "if you did know" question written for stage.
HasHelpingQuestion(prompt, stage) ==
  \/ prompt.helpingQ = Some([kind |-> "stage", of |-> stage])
  \/ /\ prompt.stagePrompt # None
     /\ prompt.stagePrompt[1].helper = Some([kind |-> "stage", of |-> stage])

\* C17 as stated: whenever the evasion flag of a turn is true, the directive
\* handed to the generator carries the helping question of the current
\* stage, whichever bot mode handles the turn.
C17_HelperInEveryMode ==
  \A r \in inflight :
    sessionStates[r.sid].clientSaysIDontKnow =>
      HasHelpingQuestion(r.contextualPrompt, sessionStates[r.sid].currentStage)

\* C17: whenever the evasion flag of a turn handled in therapist mode is
\* true, the directive handed to the generator carries the helping question
\* of the current stage, in the stage prompt and in a section of its own; a
\* turn handled in educator, practice_client or supervisor mode gets the
\* fixed prompt of that mode, which carries none.
C17_HelperInTherapistMode ==
  \A r \in inflight :
    LET stage == sessionStates[r.sid].currentStage
        question == Some([kind |-> "stage", of |-> stage])
    IN  /\ (r.botMode = "therapist" /\ sessionStates[r.sid].clientSaysIDontKnow) =>
             /\ r.contextualPrompt.helpingQ = question
             /\ r.contextualPrompt.stagePrompt # None
             /\ r.contextualPrompt.stagePrompt[1].helper = question
             /\ r.contextualPrompt.stagePrompt[1].stage = stage
        /\ r.botMode # "therapist" =>
             /\ r.contextualPrompt.helpingQ = None
             /\ r.contextualPrompt.stagePrompt = None

\* A therapist-mode turn at collect_context whose utterance says "I don't
\* know" is waiting for the generator.
C17_Witness ==
  \E r \in inflight :
    /\ r.botMode = "therapist"
    /\ sessionStates[r.sid].clientSaysIDontKnow
    /\ sessionStates[r.sid].currentStage = "collect_context"
    /\ sessionStates[r.sid].stageResponseCount >= 1

\* The utterances session sid has received, in order.
RECURSIVE UtterancesOf(_)
UtterancesOf(messages) ==
  IF messages = << >> THEN << >>
  ELSE IF Head(messages).role = "user"
    THEN << Head(messages).content >> \o UtterancesOf(Tail(messages))
    ELSE UtterancesOf(Tail(messages))

\* The part of a SessionState the stage machine decides on.
Course(state) ==
  [ currentStage |-> state.currentStage,
    stageResponseCount |-> state.stageResponseCount,
    stageHistory |-> state.stageHistory,
    requestType |-> state.requestType,
    importanceRating |-> state.importanceRating,
    clientSaysIDontKnow |-> state.clientSaysIDontKnow,
    sessionComplete |-> state.sessionComplete ]

\* The state a session reaches when it is created by /api/chat (byChat) or by
\* /api/sessions/new and is fed utterances one after the other, every one
\* answered at once.
RECURSIVE Replayed(_, _, _)
Replayed(byChat, utterances, n) ==
  IF n = 0 THEN createInitialSessionState
  ELSE LET before == IF n = 1 /\ byChat
                       THEN CreatedSessionState(utterances[1])
                       ELSE Replayed(byChat, utterances, n - 1)
           history == [ i \in 1..n |-> UserMessage(utterances[i]) ]
       IN  UpdatedSessionState(before, utterances[n], history)

\* C18: two sessions created the same way that have received the same
\* utterances are in the same stage, counter, history, category, rating,
\* evasion flag and completion; each is where a replay of its utterances
\* alone leads, whatever was answered, failed or interleaved.
C18_Deterministic ==
  /\ \A a \in DOMAIN sessionStates : \A b \in DOMAIN sessionStates :
       ( /\ sessionStates[a].sessionStarted = sessionStates[b].sessionStarted
         /\ UtterancesOf(sessions[a].messages) = UtterancesOf(sessions[b].messages) )
       => Course(sessionStates[a]) = Course(sessionStates[b])
  /\ \A a \in DOMAIN sessionStates :
       LET utterances == UtterancesOf(sessions[a].messages)
       IN  Course(sessionStates[a])
             = Course(Replayed(sessionStates[a].sessionStarted, utterances,
                               Len(utterances)))

\* Two sessions have received the same two utterances; one of them had a
\* generation call fail, so their stored histories differ.
C18_Witness ==
  \E a \in DOMAIN sessionStates : \E b \in DOMAIN sessionStates :
    /\ a # b
    /\ sessionStates[a].sessionStarted = sessionStates[b].sessionStarted
    /\ UtterancesOf(sessions[a].messages) = UtterancesOf(sessions[b].messages)
    /\ Len(UtterancesOf(sessions[a].messages)) = 2
    /\ Len(sessions[a].messages) # Len(sessions[b].messages)
    /\ sessionStates[a].clientSaysIDontKnow
    /\ sessionStates[a].importanceRating = Some(8)

\* What the server holds for session sid.
SessionData(sid) ==
  [ session |-> IF sid \in DOMAIN sessions THEN Some(sessions[sid]) ELSE None,
    state |-> IF sid \in DOMAIN sessionStates THEN Some(sessionStates[sid]) ELSE None,
    mode |-> IF sid \in DOMAIN sessionModes THEN Some(sessionModes[sid]) ELSE None,
    fallback |-> IF sid \in DOMAIN sessionFallbackState
                   THEN Some(sessionFallbackState[sid]) ELSE None ]

\* The step belongs to a /api/chat request of session sid: the request is
\* received, or its generation call ends.
IsRequestStep(sid) ==
  \/ \E r \in (inflight' \ inflight) \cup (inflight \ inflight') : r.sid = sid
  \/ /\ sid \in DOMAIN sessions'
     /\ sid \in DOMAIN sessions
     /\ sessions'[sid].messages # sessions[sid].messages

\* C19: a step of a request of session A leaves the SessionState, the
\* message list, the bot mode and the fallback state of every other session
\* as they were.
C19_OtherSessionsUntouched ==
  [][ \A a \in PairIds : \A b \in PairIds :
        (a # b /\ IsRequestStep(a)) => SessionData(b)' = SessionData(b) ]_vars

\* Requests of both sessions are in flight together, one session has a
\* fallback state and the other one a bot mode.
C19_Witness ==
  \E r1 \in inflight : \E r2 \in inflight :
    /\ r1.sid # r2.sid
    /\ r1.sid \in DOMAIN sessionFallbackState
    /\ r1.sid \notin DOMAIN sessionModes
    /\ r2.sid \in DOMAIN sessionModes
    /\ r2.sid \notin DOMAIN sessionFallbackState

\* A context field holds a value.
Populated(v) == v # None

\* C20: the directive of every therapist-mode turn whose stage is finish has
\* the homework section, and the practice in it follows the priority:
\* metaphor or metaphorData.image gives morning-connection; otherwise
\* bodyLocation or bodyworkData.location gives body-check; otherwise a
\* non-empty newActions or a firstStep gives new-action; otherwise
\* breath-anchor.
C20_HomeworkPriority ==
  \A r \in inflight :
    LET context == sessionStates[r.sid].context
        expected ==
          IF Populated(context.metaphor) \/ Populated(context.metaphorData.image)
            THEN "morning-connection"
          ELSE IF Populated(context.bodyLocation)
                    \/ Populated(context.bodyworkData.location)
            THEN "body-check"
          ELSE IF context.newActions # << >> \/ Populated(context.firstStep)
            THEN "new-action"
          ELSE "breath-anchor"
    IN  (r.botMode = "therapist" /\ sessionStates[r.sid].currentStage = "finish") =>
          /\ r.contextualPrompt.homework = Some(expected)
          /\ expected \in IMPLEMENTATION_PRACTICES

\* A therapist-mode turn at finish is waiting for the generator; the context
\* has a body location and a first step but no metaphor.
C20_Witness ==
  \E r \in inflight :
    /\ r.botMode = "therapist"
    /\ sessionStates[r.sid].currentStage = "finish"
    /\ sessionStates[r.sid].context.metaphor = None
    /\ sessionStates[r.sid].context.metaphorData.image = None
    /\ sessionStates[r.sid].context.bodyworkData.location # None
    /\ sessionStates[r.sid].context.firstStep # None
    /\ r.contextualPrompt.homework = Some("body-check")

\* The mode of session sid: sessionModes.get(sid) || 'therapist'.
ModeOf(modes, sid) == IF sid \in DOMAIN modes THEN modes[sid] ELSE "therapist"

\* The utterance holds a trigger keyword of some mode.
HasTrigger(message) ==
  \/ SomeKeyword(practiceKeywords, toLowerCase(message))
  \/ SomeKeyword(supervisorKeywords, toLowerCase(message))
  \/ SomeKeyword(educatorKeywords, toLowerCase(message))

\* The utterance holds a mode exit command.
HasExit(message) == SomeKeyword(ExitCommands, toLowerCase(message))

\* The step is the receipt of a /api/chat request of session sid.
IsReceipt(sid) ==
  /\ sid \in DOMAIN sessions'
  /\ Len(UtterancesOf(sessions'[sid].messages))
       > (IF sid \in DOMAIN sessions THEN Len(UtterancesOf(sessions[sid].messages)) ELSE 0)

\* The utterance received in a step for which IsReceipt(sid) holds.
Received(sid) ==
  LET utterances == UtterancesOf(sessions'[sid].messages)
  IN  utterances[Len(utterances)]

\* C21: a session without a recorded mode is in therapist mode, and a turn of
\* a session that is in educator, practice_client or supervisor mode, whose
\* utterance holds neither a mode trigger nor an exit command, is handled in
\* the mode the session was in.
C21_ModeIsSticky ==
  [][ \A sid \in SessionIds :
        ( /\ IsReceipt(sid)
          /\ ModeOf(sessionModes, sid) \in { "educator", "practice_client", "supervisor" }
          /\ ~HasTrigger(Received(sid))
          /\ ~HasExit(Received(sid)) )
        => ModeOf(sessionModes', sid) = ModeOf(sessionModes, sid) ]_vars

\* C22: when some utterance of a session held an exit command and no later
\* utterance of the session, the latest one included, holds a mode trigger,
\* the session is in therapist mode.
C22_ExitHolds ==
  \A sid \in DOMAIN sessions :
    LET utterances == UtterancesOf(sessions[sid].messages)
    IN  (\E i \in 1..Len(utterances) :
           /\ HasExit(utterances[i])
           /\ \A j \in (i + 1)..Len(utterances) : ~HasTrigger(utterances[j]))
        => ModeOf(sessionModes, sid) = "therapist"

\* C23: a turn that takes a session into practice_client mode calls no
\* provider and leaves the fixed reply as the last message of the history.
C23_ActivationGetsFixedReply ==
  [][ \A sid \in SessionIds :
        ( /\ IsReceipt(sid)
          /\ ModeOf(sessionModes, sid) # "practice_client"
          /\ ModeOf(sessionModes', sid) = "practice_client" )
        => /\ inflight' = inflight
           /\ sessions'[sid].messages[Len(sessions'[sid].messages)]
                = AssistantMessage(FixedResponse) ]_vars

\* The step ends a request after its Cerebras attempt has failed.
CerebrasFailed == response'.providers = << "cerebras", "algion" >> /\ inflight' # inflight

\* C24 as stated: whenever the Cerebras attempt of a request fails, the
\* fallback state of the session is set with the current time and the turn
\* ends with an assistant message stored.
C24_FallbackAlwaysAnswers ==
  [][ \A r \in inflight \ inflight' :
        CerebrasFailed =>
          /\ r.sid \in DOMAIN sessionFallbackState'
          /\ sessionFallbackState'[r.sid] = [useFallback |-> TRUE, fallbackTime |-> now]
          /\ response'.kind = "done"
          /\ sessions'[r.sid].messages
               = Append(sessions[r.sid].messages, AssistantMessage(AssistantReply)) ]_vars

\* C24: whenever the Cerebras attempt of a request fails, the request is
\* passed to Algion and the fallback state of the session is set with the
\* current time; the turn ends with an assistant message stored when Algion
\* answers and with an error and no message stored when Algion fails too; no
\* request is passed to more than two providers.
C24_CerebrasErrorFallsBack ==
  [][ \A r \in inflight \ inflight' :
        /\ Len(response'.providers) <= 2
        /\ CerebrasFailed =>
             /\ r.sid \in DOMAIN sessionFallbackState'
             /\ sessionFallbackState'[r.sid]
                  = [useFallback |-> TRUE, fallbackTime |-> now]
             /\ \/ /\ response'.kind = "done"
                   /\ sessions'[r.sid].messages
                        = Append(sessions[r.sid].messages, AssistantMessage(AssistantReply))
                \/ /\ response'.kind = "error"
                   /\ sessions' = sessions ]_vars

\* Algion has answered a request on which Cerebras failed, some minutes
\* after the session began.
C24_Witness ==
  /\ response.kind = "done"
  /\ response.providers = << "cerebras", "algion" >>
  /\ now > 0
  /\ sessionFallbackState["s1"] = [useFallback |-> TRUE, fallbackTime |-> now]
  /\ sessions["s1"].messages[Len(sessions["s1"].messages)].role = "assistant"

\* C25: a request received while the fallback state of its session is set
\* goes to Algion alone when less than FALLBACK_RETRY_INTERVAL has passed
\* since it was set, and to Cerebras first when more has passed; when that
\* Cerebras attempt succeeds the fallback state is cleared, and when it fails
\* the fallback time is set anew and the request is passed to Algion; a
\* request of a session without fallback state goes to Cerebras.
C25_FallbackWindow ==
  [][ /\ \A r \in inflight' \ inflight :
           IF r.sid \in DOMAIN sessionFallbackState
             THEN LET elapsed == now - sessionFallbackState[r.sid].fallbackTime
                  IN  /\ elapsed < FALLBACK_RETRY_INTERVAL => r.provider = "algion"
                      /\ elapsed > FALLBACK_RETRY_INTERVAL => r.provider = "cerebras"
             ELSE r.provider = "cerebras"
      /\ \A r \in inflight \ inflight' :
           /\ r.provider = "algion" => response'.providers = << "algion" >>
           /\ (r.provider = "cerebras" /\ r.sid \in DOMAIN sessionFallbackState) =>
                \/ /\ response'.providers = << "cerebras" >>
                   /\ response'.kind = "done"
                   /\ r.sid \notin DOMAIN sessionFallbackState'
                \/ /\ response'.providers = << "cerebras", "algion" >>
                   /\ r.sid \in DOMAIN sessionFallbackState'
                   /\ sessionFallbackState'[r.sid].fallbackTime = now ]_vars

\* More than five minutes after the switch to Algion a request of the
\* session is waiting for Cerebras again.
C25_Witness ==
  \E r \in inflight :
    /\ r.provider = "cerebras"
    /\ r.sid \in DOMAIN sessionFallbackState
    /\ now - sessionFallbackState[r.sid].fallbackTime > FALLBACK_RETRY_INTERVAL

\* The saved sessions tagged with mode, by their place in the stored array.
Tagged(mode) == { i \in DOMAIN savedSessions : savedSessions[i].mode = Some(mode) }

\* The one of them that was updated last.
LatestTagged(mode) ==
  CHOOSE i \in Tagged(mode) :
    \A j \in Tagged(mode) : savedSessions[j].updatedAt <= savedSessions[i].updatedAt

\* C26: a click on a mode button mounts the page with the saved session of
\* that mode that was updated last and sends nothing when such a session is
\* saved; otherwise it mounts an empty page whose new session receives the
\* trigger message of the mode and no other utterance.
C26_ModeSelectContinuesLatest ==
  [][ \A mode \in ClientModes : \A uuid \in ClientIds :
        ModeSelect(mode, uuid) =>
          IF Tagged(mode) # {}
            THEN /\ page' = MountedPage(Some(savedSessions[LatestTagged(mode)]))
                 /\ server' = server
                 /\ savedSessions' = savedSessions
            ELSE /\ uuid \notin DOMAIN sessions
                 /\ DOMAIN sessions' = DOMAIN sessions \cup { uuid }
                 /\ \A sid \in DOMAIN sessions : sessions'[sid] = sessions[sid]
                 /\ UtterancesOf(sessions'[uuid].messages) = << TriggerMessage(mode) >>
                 /\ page'.sessionId = Some(uuid) ]_vars

\* Two saved sessions carry the same mode, the one updated last stands
\* behind the other in the stored array, and the page of that mode shows it,
\* freshly mounted.
C26_Witness ==
  \E mode \in ClientModes :
    /\ app.currentMode = Some(mode)
    /\ \E i \in Tagged(mode) : i < LatestTagged(mode)
    /\ page = MountedPage(Some(savedSessions[LatestTagged(mode)]))

\* C27: a turn received at collect_context that brings the counter to 2 or
\* more takes the session to clarify_request, with the counter at 0 and
\* collect_context appended to the history, when a rating is known, be it
\* from this utterance or from any earlier one, the first included; without
\* a rating the stage is left on the turn that brings the counter to 3, and
\* below 2 it is not left.
C27_RatingAdvancesCollectContext ==
  [][ \A sid \in SessionIds :
        (IsReceipt(sid) /\ StateBefore(sid).currentStage = "collect_context") =>
          LET before == sessionStates[sid]
              after == sessionStates'[sid]
              count == before.stageResponseCount + 1
              utterances == UtterancesOf(sessions'[sid].messages)
              rated == \E i \in 1..Len(utterances) :
                         extractImportanceRating(utterances[i]) # None
              advanced == /\ after.currentStage = "clarify_request"
                          /\ after.stageResponseCount = 0
                          /\ after.stageHistory
                               = Append(before.stageHistory, "collect_context")
              stayed == /\ after.currentStage = "collect_context"
                        /\ after.stageResponseCount = count
                        /\ after.stageHistory = before.stageHistory
          IN  IF count >= 2 /\ (rated \/ count >= 3) THEN advanced ELSE stayed ]_vars

\* The first utterance of the session held the rating; two neutral
\* utterances later the session has reached clarify_request.
C27_Witness ==
  /\ "s1" \in DOMAIN sessionStates
  /\ UtterancesOf(sessions["s1"].messages) = << << "8", "iz", "10" >>, Filler, Filler >>
  /\ sessionStates["s1"].currentStage = "clarify_request"
  /\ sessionStates["s1"].stageResponseCount = 0
  /\ sessionStates["s1"].importanceRating = Some(8)

\* The value the earliest pattern that matches the utterance captures, when
\* it lies in [1,10].
EarliestPatternRating(message) ==
  LET matching == { p \in 1..4 : RatingPatternMatch(p, message) # None }
  IN  IF matching = {} THEN None
      ELSE LET num == parseInt(RatingPatternMatch(Min(matching), message)[1])
           IN  IF num >= 1 /\ num <= 10 THEN Some(num) ELSE None

\* C28: the rating extracted from an utterance is none or an integer in
\* [1,10], and it is what the earliest pattern that matches the utterance
\* captures; after a turn importanceRating is the value extracted from the
\* utterance of the turn when there is one, and the value it had otherwise.
C28_EarliestPatternDecides ==
  [][ \A sid \in SessionIds :
        IsReceipt(sid) =>
          LET extracted == extractImportanceRating(Received(sid))
          IN  /\ extracted = None \/ (extracted[1] \in 1..10)
              /\ extracted = EarliestPatternRating(Received(sid))
              /\ sessionStates'[sid].importanceRating
                   = IF extracted # None THEN extracted
                     ELSE StateBefore(sid).importanceRating ]_vars

----------------------------------------------------------------------------
(* C29: request type is the first category in the fixed order              *)

\* The order of the categories the request type is searched in.
CategoryOrder ==
  << "fear_anxiety", "procrastination", "relationships", "self_worth", "burnout",
     "lost_desires", "role_conflict", "resistance", "trauma", "identity",
     "psychosomatic" >>

\* Some keyword of the category occurs in the lower-cased utterance.
Matches(category, message) ==
  \E k \in 1..Len(REQUEST_TYPE_KEYWORDS[category]) :
    Includes(toLowerCase(message), REQUEST_TYPE_KEYWORDS[category][k])

\* C29: the request type detected for the first utterance of a session is
\* the first category in the fixed order with a keyword in the lower-cased
\* utterance, and general exactly when no category has one; it depends on
\* the utterance alone.
C29_FirstCategoryInOrder ==
  \A sid \in DOMAIN sessionStates :
    LET utterances == UtterancesOf(sessions[sid].messages)
        requestType == sessionStates[sid].requestType
    IN  utterances # << >> /\ sessionStates[sid].sessionStarted =>
          /\ requestType # None
          /\ requestType = Some("general") <=>
                \A i \in 1..Len(CategoryOrder) : ~Matches(CategoryOrder[i], utterances[1])
          /\ \A i \in 1..Len(CategoryOrder) :
                requestType = Some(CategoryOrder[i]) <=>
                  /\ Matches(CategoryOrder[i], utterances[1])
                  /\ \A j \in 1..(i - 1) : ~Matches(CategoryOrder[j], utterances[1])

\* A session whose first utterance has keywords of two categories, the later
\* category's keyword first, is typed with the earlier category.
C29_Witness ==
  /\ "s1" \in DOMAIN sessionStates
  /\ UtterancesOf(sessions["s1"].messages)[1] = << "otkladyvayu", "i", "boyus" >>
  /\ sessionStates["s1"].requestType = Some("fear_anxiety")
  /\ Len(sessionStates["s1"].stageHistory) > 0

----------------------------------------------------------------------------
(* C30: the authorship reframing is transient                              *)

\* The utterance carries a projection phrase.
HasProjection(message) ==
  \E t \in 1..Len(AUTHORSHIP_TRANSFORMATIONS) :
    Test(AUTHORSHIP_TRANSFORMATIONS[t].pattern, message)

\* The text contains the authorship wording of some projection phrase.
HasAuthorshipWording(text) ==
  \E t \in 1..Len(AUTHORSHIP_TRANSFORMATIONS) :
    Includes(text, AUTHORSHIP_TRANSFORMATIONS[t].transform)

\* The texts a SessionState and its TherapyContext hold, as word sequences.
TextsOf(state) ==
  { state.lastClientResponse }
    \cup (IF state.context.originalRequest # None
            THEN { state.context.originalRequest[1] } ELSE {})
    \cup { state.context[f] :
             f \in { "clientName", "clarifiedRequest", "currentStrategy", "deepNeed",
                     "bodyLocation", "metaphor", "firstStep" } }

\* C30: the reframing section of a turn's directive is there only when the
\* utterance of that turn carries a projection phrase, and then quotes that
\* utterance; in therapist mode it is there whenever the utterance does;
\* no text stored in a SessionState or its TherapyContext holds the
\* authorship wording.
C30_ReframingIsTransient ==
  /\ \A r \in inflight :
       LET utterance == sessions[r.sid].messages[r.req].content
           authorship == r.contextualPrompt.authorship
       IN  /\ authorship # None =>
                 HasProjection(utterance) /\ authorship[1].heard = utterance
           /\ r.botMode = "therapist" /\ HasProjection(utterance) =>
                 authorship # None
  /\ \A sid \in DOMAIN sessionStates :
       \A text \in TextsOf(sessionStates[sid]) : ~HasAuthorshipWording(text)

\* A therapist turn without a projection phrase, right after a turn with
\* one, is waiting for its reply with no reframing section.
C30_Witness ==
  /\ "s1" \in DOMAIN sessions
  /\ UtterancesOf(sessions["s1"].messages) = << << "menya", "besit", "shum" >>, Filler >>
  /\ \E r \in inflight :
       /\ r.sid = "s1"
       /\ r.botMode = "therapist"
       /\ r.contextualPrompt.authorship = None

----------------------------------------------------------------------------
(* C31: no authorship pattern is masked by an earlier one                  *)

\* C31: an utterance that is the very phrase an authorship pattern is
\* written for is reframed with the wording of that pattern: no earlier,
\* more general pattern takes the phrase.
C31_NoEntryMasked ==
  \A r \in inflight :
    LET utterance == sessions[r.sid].messages[r.req].content
    IN  \A t \in 1..Len(AUTHORSHIP_TRANSFORMATIONS) :
          /\ r.botMode = "therapist"
          /\ \E a \in 1..Len(AUTHORSHIP_TRANSFORMATIONS[t].pattern) :
               toLowerCase(utterance) = AUTHORSHIP_TRANSFORMATIONS[t].pattern[a]
          => /\ r.contextualPrompt.authorship # None
             /\ r.contextualPrompt.authorship[1].transform =
                  AUTHORSHIP_TRANSFORMATIONS[t].transform

----------------------------------------------------------------------------
(* C32: turns fill no context field but the name; stages end at the ceiling *)

\* The counter value at which each stage from clarify_request to
\* plan_actions is left.
ExitCount ==
  [ clarify_request |-> 4, explore_strategy |-> 3, find_need |-> 4, bodywork |-> 4,
    metaphor |-> 3, meta_position |-> 3, integration |-> 3, plan_actions |-> 3 ]

\* C32: a turn changes no TherapyContext field other than clientName and
\* leaves integrationComplete alone; a turn received at a stage from
\* clarify_request to plan_actions leaves the stage exactly when it brings
\* the counter to the stage's ceiling, whatever the utterance.
C32_StagesEndAtCeiling ==
  [][ \A sid \in DOMAIN sessionStates \cap DOMAIN sessionStates' :
        LET before == sessionStates[sid]
            after == sessionStates'[sid]
        IN  after # before =>
              /\ after.context = [ before.context EXCEPT
                                     !.clientName = after.context.clientName ]
              /\ after.integrationComplete = before.integrationComplete
              /\ before.currentStage \in DOMAIN ExitCount =>
                    /\ before.stageResponseCount < ExitCount[before.currentStage]
                    /\ after.currentStage # before.currentStage <=>
                          before.stageResponseCount + 1 =
                            ExitCount[before.currentStage] ]_vars

\* A session has been taken through every stage from clarify_request to
\* plan_actions with none of the context fields filled.
C32_Witness ==
  \E sid \in DOMAIN sessionStates :
    /\ sessionStates[sid].currentStage = "finish"
    /\ sessionStates[sid].context.clarifiedRequest = None
    /\ sessionStates[sid].context.firstStep = None
    /\ ~sessionStates[sid].integrationComplete

----------------------------------------------------------------------------
(* C33: concurrent requests of one session update the state one by one      *)

\* C33: every request accepted for a session, whatever requests of the
\* session are still waiting for their reply, counts once and applies at
\* most one transition, and the session is where the same utterances
\* processed one after the other lead.
C33_ConcurrentAsSequential ==
  [][ \A sid \in DOMAIN sessionStates' :
        LET utterances == UtterancesOf(sessions'[sid].messages)
            after == sessionStates'[sid]
        IN  /\ Course(after) = Course(Replayed(after.sessionStarted, utterances,
                                               Len(utterances)))
            /\ ( sid \in DOMAIN sessionStates =>
                   Len(utterances) > Len(UtterancesOf(sessions[sid].messages)) )
               => LET before == IF sid \in DOMAIN sessionStates
                                  THEN sessionStates[sid]
                                  ELSE createInitialSessionState
                  IN  \/ /\ after.currentStage = before.currentStage
                         /\ after.stageResponseCount = before.stageResponseCount + 1
                         /\ after.stageHistory = before.stageHistory
                      \/ /\ Some(after.currentStage) = getNextStage(before.currentStage)
                         /\ after.stageResponseCount = 0
                         /\ after.stageHistory =
                              Append(before.stageHistory, before.currentStage) ]_vars

\* Three requests of one session are waiting for their reply and the session
\* has moved on two stages meanwhile.
C33_Witness ==
  /\ "s1" \in DOMAIN sessionStates
  /\ Cardinality({ r \in inflight : r.sid = "s1" }) >= 3
  /\ Len(sessionStates["s1"].stageHistory) >= 2

----------------------------------------------------------------------------
(* C34: the directive is written for the stage the turn has entered        *)

\* C34: the therapist directive of a turn names the stage the session is in
\* after the turn's transition: its stage section, its evasion hint and its
\* homework section are those of that stage, also on a turn that has just
\* left another stage; the directive of a session created by /api/chat is
\* never written for start_session.
C34_DirectiveOfStageEntered ==
  [][ \A r \in inflight' \ inflight :
        LET after == sessionStates'[r.sid]
            directive == r.contextualPrompt
        IN  r.botMode = "therapist" =>
              /\ directive.stagePrompt # None
              /\ directive.stagePrompt[1].stage = after.currentStage
              /\ directive.progress[1].stage = after.currentStage
              /\ directive.helpingQ # None =>
                    directive.helpingQ =
                      Some(getHelpingQuestion(after.currentStage, << >>))
              /\ directive.homework # None <=> after.currentStage = "finish"
              /\ ( r.sid \in DOMAIN sessionStates
                     /\ after.currentStage # sessionStates[r.sid].currentStage )
                   => directive.stagePrompt[1].stage
                        # sessionStates[r.sid].currentStage
              /\ after.sessionStarted => directive.stagePrompt[1].stage # "start_session"
    ]_vars

\* The turn that left plan_actions is waiting for its reply with a directive
\* written for finish, homework included.
C34_Witness ==
  \E r \in inflight :
    /\ r.botMode = "therapist"
    /\ r.contextualPrompt.stagePrompt[1].stage = "finish"
    /\ r.contextualPrompt.homework # None
    /\ r.contextualPrompt.progress[1].count = 0
    /\ sessionStates[r.sid].sessionStarted

----------------------------------------------------------------------------
(* C35: stage progress does not depend on the bot mode                     *)

\* n neutral utterances, which no bot mode is detected for.
Neutral(n) == [ i \in 1..n |-> Filler ]

\* C35: a session that has received n utterances carrying mode triggers and
\* exit commands, handled in whichever modes, is at the stage and counter,
\* with the stage history, of a session created the same way that has
\* received n neutral utterances, all handled in therapist mode.
C35_ModeBlindProgress ==
  \A sid \in DOMAIN sessionStates :
    LET n == Len(UtterancesOf(sessions[sid].messages))
        state == sessionStates[sid]
        therapist == Replayed(state.sessionStarted, Neutral(n), n)
    IN  /\ state.currentStage = therapist.currentStage
        /\ state.stageResponseCount = therapist.stageResponseCount
        /\ state.stageHistory = therapist.stageHistory

\* Three turns, none of them handled in therapist mode, have taken a session
\* out of start_session and counted twice at collect_context.
C35_Witness ==
  /\ "s1" \in DOMAIN sessionStates
  /\ UtterancesOf(sessions["s1"].messages) =
       << << "bud", "klientom" >>, << "superviziya" >>, << "kak", "pravilno" >> >>
  /\ "s1" \in DOMAIN sessionModes
  /\ sessionModes["s1"] # "therapist"
  /\ sessionStates["s1"].currentStage = "collect_context"
  /\ sessionStates["s1"].stageResponseCount = 2

----------------------------------------------------------------------------
(* C36: the meta event names the provider of the first attempt             *)

\* C36: when the generation call of a request ends, the first provider it
\* was passed to is the provider its meta event named, whichever provider
\* clients exist and whatever the fallback state was.
C36_MetaNamesFirstAttempt ==
  [][ \A r \in inflight \ inflight' :
        response'.providers # << >> => response'.providers[1] = r.provider ]_vars

----------------------------------------------------------------------------
(* C37, C38: think spans are removed from the streamed reply               *)

\* The text without its think spans: every stretch from an opening tag to
\* the next closing tag, both included, is left out.
RECURSIVE WithoutThinkSpans(_)
WithoutThinkSpans(text) ==
  IF text = << >> THEN << >>
  ELSE IF /\ StartsWithAt(text, 1, OpenThink)
          /\ \E j \in (Len(OpenThink) + 1)..Len(text) : StartsWithAt(text, j, CloseThink)
    THEN WithoutThinkSpans(
           SubSeq(text,
                  Min({ j \in (Len(OpenThink) + 1)..Len(text) :
                          StartsWithAt(text, j, CloseThink) }) + Len(CloseThink),
                  Len(text)))
    ELSE << Head(text) >> \o WithoutThinkSpans(Tail(text))

\* C37: when the stream of the provider called first has ended, whatever
\* chunks its output arrived in, the text forwarded in chunk events and the
\* content of the stored assistant message are the output without its think
\* spans.
C37_ThinkSpansRemoved ==
  (stream.stored # None /\ stream.switchedAt = None) =>
    /\ stream.rawContent = stream.output
    /\ stream.forwarded = WithoutThinkSpans(stream.output)
    /\ stream.stored = Some(WithoutThinkSpans(stream.output))

\* C38: when the reply was completed by Algion after the Cerebras stream
\* broke, the text forwarded since the provider switch is Algion's output
\* without its think spans, and the content of the stored assistant message
\* is the concatenation of all chunk events of the request.
C38_FallbackReplyForwarded ==
  (stream.stored # None /\ stream.switchedAt # None) =>
    /\ SubSeq(stream.forwarded, stream.switchedAt[1] + 1, Len(stream.forwarded))
         = WithoutThinkSpans(stream.output)
    /\ stream.stored = Some(stream.forwarded)

----------------------------------------------------------------------------
(* C39: the stored list of saved sessions                                  *)

\* The entries of the stored list, whatever their order.
Entries(store) == { store[i] : i \in 1..Len(store) }

\* The entry of the stored list with the oldest updatedAt.
Oldest(store) ==
  CHOOSE s \in Entries(store) : \A t \in Entries(store) : s.updatedAt <= t.updatedAt

\* The stored entry of a session id.
Entry(store, id) == CHOOSE s \in Entries(store) : s.id = id

\* C39: after any sequence of saveSession, deleteSession, clearSessionsByMode
\* and clearAllSessions calls from an empty store, the stored list holds at
\* most 20 sessions with pairwise distinct ids; saving a stored id replaces
\* that entry and keeps its createdAt, saving with an empty id or without
\* messages changes nothing, and saving a 21st session drops the entry with
\* the oldest updatedAt.
C39_StoreInvariants ==
  [][ LET before == savedSessions
          after == savedSessions'
      IN  /\ Len(after) <= MAX_SESSIONS
          /\ \A i, j \in 1..Len(after) : after[i].id = after[j].id => i = j
          /\ saveSession(after, [ id |-> None, messages |-> 1, mode |-> None ]) = after
          /\ \A id \in FreshIds(after) :
               saveSession(after, [ id |-> Some(id), messages |-> 0, mode |-> None ]) = after
          /\ (StoredIds(after) = StoredIds(before) /\ Entries(after) # Entries(before)) =>
               /\ Len(after) = Len(before)
               /\ \A id \in StoredIds(after) :
                    Entry(after, id).createdAt = Entry(before, id).createdAt
               /\ \E id \in StoredIds(after) :
                    /\ Entry(after, id).updatedAt = Len(after)
                    /\ Entry(after, id).messages = 2
          /\ (Len(before) = MAX_SESSIONS /\ StoredIds(after) \ StoredIds(before) # {}) =>
               /\ Len(after) = MAX_SESSIONS
               /\ StoredIds(before) \ StoredIds(after) = { Oldest(before).id } ]_vars

\* A 21st session has been saved into a full store one of whose entries was
\* saved again while it was the oldest.
C39_Witness ==
  /\ Len(savedSessions) = MAX_SESSIONS
  /\ "u21" \in StoredIds(savedSessions)
  /\ "u01" \in StoredIds(savedSessions)
  /\ "u02" \notin StoredIds(savedSessions)
  /\ Entry(savedSessions, "u01").messages = 2

----------------------------------------------------------------------------
(* C40: a saved session is tagged only by the selection of its mode        *)

\* C40: a session is stored with a non-null mode m only when it is opened by
\* the selection of mode m, that is by the step that makes m the current
\* mode; a session begun on a page opened by the header's "new session", by
\* a scenario or by a free request is stored with mode null.
C40_TaggedOnlyBySelection ==
  [][ \A s \in Entries(savedSessions') :
        (s.id \notin StoredIds(savedSessions) /\ s.mode # None) =>
          /\ app'.currentMode = s.mode
          /\ app.currentMode # s.mode ]_vars

====
